---------------------------- MODULE Spec2Model ----------------------------
(***************************************************************************)
(* A model of two subsystems of multicloud-operators-subscription:         *)
(*                                                                         *)
(*   - the Git subscriber item (pkg/subscriber/git/git_subscriber_item.go):*)
(*     Start / Stop, the periodic tick, the retry loop and one             *)
(*     reconciliation attempt (doSubscription) with its resource pipeline; *)
(*   - the Ansible hook registry (mcmhub, AnsibleHooks): registration,     *)
(*     apply and completion queries of pre/post hooks.                     *)
(*                                                                         *)
(* The two subsystems share no state.  SyncSpec runs the subscriber item,  *)
(* HookSpec runs the hook registry.                                        *)
(***************************************************************************)
EXTENDS Integers, Sequences, FiniteSets, TLC

VARIABLES
    \* ---- SubscriberItem (git_subscriber_item.go:63-88) ----
    cfg,        \* the fields fixed at construction (rate, flags, subscription spec)
    stopch,     \* ghsi.stopch: 0 for nil, else the id of the channel Start made
    closed,     \* how many times each channel id was closed
    workers,    \* channel ids whose wait.Until goroutine is running
    loop,       \* the retry loop in progress: [active, n, by]
    count,      \* ghsi.count
    commitID,   \* ghsi.commitID ("" = none)
    successful, \* ghsi.successful
    resources,  \* ghsi.resources
    sorted,     \* chartDirs, kustomizeDirs, the three file buckets, indexFile
    status,     \* the subscription status written by UpdateSubscriptionStatus
    obs,        \* what the last attempt did (fetch, classification, apply, ...)
    ticks,      \* the ticks since Start, while the run is a steady one
    event,      \* the last call or step on the item, and what it met
    \* ---- AnsibleHooks (unnamed/part_000:108-116) and its cluster ----
    registry,   \* a.registry: a map from subscription keys to Hooks
    cluster,    \* the API server: subscriptions, channels, job statuses
    ret,        \* the last call on the hook processor and what it returned
    lastCall,   \* per key, what the preceding RegisterSubscription saw and did
    suffixFunc, \* a.suffixFunc: the name of the suffix function that is set
    \* ---- the placement rule controller and the objects it watches ----
    managed,    \* the ManagedCluster objects the API server holds, by name
    prule,      \* the PlacementRule: [exists, scheduler, decisions]
    requests,   \* a reconcile request for the rule is queued
    pevent,     \* the last step on the placement objects
    \* ---- attempts of the SubscriberItem that take more than one step ----
    inflight    \* per worker, the attempt it is in the middle of: [active, in]

syncVars == <<cfg, stopch, closed, workers, loop, count, commitID, successful,
              resources, sorted, status, obs, ticks, event>>
hookVars == <<registry, cluster, ret, lastCall, suffixFunc>>
placeVars == <<managed, prule, requests, pevent>>
vars == <<syncVars, hookVars, placeVars, inflight>>


(***************************************************************************)
(* Bounds of the model.                                                    *)
(***************************************************************************)
MaxStarts == 2
MaxRetries == 1
MaxTicks == 7
MaxCount == 7
MaxGeneration == 2
MaxJobs == 2

(***************************************************************************)
(* strings.EqualFold over the strings the model uses: Fold gives the       *)
(* case-folded form of a string.                                           *)
(***************************************************************************)
FoldTable ==
    { <<"Subscription", "subscription">>, <<"SUBSCRIPTION", "subscription">>,
      <<"True", "true">>, <<"TRUE", "true">>,
      <<"Medium", "medium">>, <<"MEDIUM", "medium">>,
      <<"Off", "off">>, <<"OFF", "off">>,
      <<"Git", "git">>, <<"GIT", "git">>,
      <<"GitHub", "github">>, <<"Github", "github">>, <<"GITHUB", "github">>,
      <<"HelmRepo", "helmrepo">>, <<"Namespace", "namespace">>,
      <<"ObjectBucket", "objectbucket">>,
      <<"Successful", "successful">>, <<"SUCCESSFUL", "successful">>,
      <<"Failed", "failed">>, <<"Running", "running">>,
      <<"Apps.Open-Cluster-Management.io/v1", "apps.open-cluster-management.io/v1">>,
      <<"Apps.Open-Cluster-Management.io", "apps.open-cluster-management.io">> }

Fold(s) ==
    IF \E p \in FoldTable : p[1] = s
    THEN (CHOOSE p \in FoldTable : p[1] = s)[2]
    ELSE s

EqualFold(a, b) == Fold(a) = Fold(b)

(***************************************************************************)
(* Go maps of strings: a function whose domain is the set of keys present. *)
(***************************************************************************)
EmptyMap == <<>>
Get(m, k) == IF k \in DOMAIN m THEN m[k] ELSE ""
Put(m, k, v) == (k :> v) @@ m

AnnotationClusterAdmin == "apps.open-cluster-management.io/cluster-admin"
AnnotationResourceReconcileOption == "apps.open-cluster-management.io/reconcile-option"
AnnotationUserIdentity == "open-cluster-management.io/user-identity"
AnnotationUserGroup == "open-cluster-management.io/user-group"
AnnotationHosting == "apps.open-cluster-management.io/hosting-subscription"
MergeReconcile == "merge"
SubscriptionGroup == "apps.open-cluster-management.io"
SubscriptionGroupVersion == "apps.open-cluster-management.io/v1"
SubNamespace == "sub-ns"


(***************************************************************************)
(* Manifests.  A manifest is one YAML document of the repository (or of a  *)
(* Kustomize build):                                                       *)
(*   bad         yaml.Unmarshal fails on it                                *)
(*   api, kind   apiVersion and kind ("" when absent)                      *)
(*   name, ns    metadata.name and the declared namespace ("" when none)   *)
(*   namespaced  the synchronizer's IsResourceNamespaced answer            *)
(*   labelOK     utils.LabelChecker's answer for the package filter        *)
(*   ovErr       utils.OverrideResourceBySubscription fails on it          *)
(*   annos       metadata.annotations                                      *)
(***************************************************************************)
Manifest(id, api, kind, name, ns, namespaced, annos) ==
    [id |-> id, bad |-> FALSE, api |-> api, kind |-> kind, name |-> name,
     ns |-> ns, namespaced |-> namespaced, labelOK |-> TRUE, ovErr |-> FALSE,
     annos |-> annos]

MNamespace == Manifest("ns", "v1", "Namespace", "ns1", "", FALSE, EmptyMap)
MCrd == Manifest("crd", "apiextensions.k8s.io/v1", "CustomResourceDefinition",
                 "crd1", "", FALSE, EmptyMap)
MRole == Manifest("role", "rbac.authorization.k8s.io/v1", "Role", "role1", "",
                  TRUE, EmptyMap)
MDeployA == Manifest("depA", "apps/v1", "Deployment", "a", "other-ns", TRUE,
                     EmptyMap)
MDeployB == [Manifest("depB", "apps/v1", "Deployment", "b", "", TRUE, EmptyMap)
                EXCEPT !.labelOK = FALSE]
MDeployOv == [Manifest("depOv", "apps/v1", "Deployment", "a", "", TRUE, EmptyMap)
                EXCEPT !.ovErr = TRUE]
MSubChild == Manifest("subChild", SubscriptionGroupVersion, "Subscription",
                      "child", "", TRUE, EmptyMap)
MSubAdmin == Manifest("subAdmin", SubscriptionGroupVersion, "Subscription",
                      "childAdmin", "", TRUE,
                      Put(EmptyMap, AnnotationClusterAdmin, "True"))
MLoose == Manifest("loose", "", "", "", "", FALSE, EmptyMap)
MBad == [Manifest("bad", "", "", "", "", FALSE, EmptyMap) EXCEPT !.bad = TRUE]

\* schema.GroupVersionKind.Group of an apiVersion: the part before the "/".
GroupOf(api) ==
    CASE api = SubscriptionGroupVersion -> SubscriptionGroup
      [] api = "apps/v1" -> "apps"
      [] api = "apiextensions.k8s.io/v1" -> "apiextensions.k8s.io"
      [] api = "rbac.authorization.k8s.io/v1" -> "rbac.authorization.k8s.io"
      [] OTHER -> ""

(***************************************************************************)
(* checkFilters (git_subscriber_item.go:726-776): "" when the resource     *)
(* passes, the reason when it is filtered out.                             *)
(***************************************************************************)
checkFilters(c, m, rsc) ==
    IF c.pkg # "" /\ c.pkg # rsc.name
    THEN "Name does not match"
    ELSE IF ~c.hasFilter THEN ""
    ELSE IF ~m.labelOK THEN "Failed to pass label check"
    ELSE IF c.filterHasAnnos
            /\ \E k \in DOMAIN c.filterAnnos :
                  Get(rsc.annos, k) # c.filterAnnos[k]
         THEN "Failed to pass annotation check"
         ELSE ""

NoResource ==
    [id |-> "", api |-> "", kind |-> "", name |-> "", ns |-> "",
     annos |-> EmptyMap, partOf |-> FALSE]

(***************************************************************************)
(* The namespace policy of subscribeResource                               *)
(* (git_subscriber_item.go:632-667): the resource with its namespace set   *)
(* and, under cluster-admin, the marker on a child Subscription.           *)
(***************************************************************************)
\* a policy that keeps any declared namespace, cluster-admin or not
keepDeclaredNamespace(c, m) ==
    [id |-> m.id, api |-> m.api, kind |-> m.kind, name |-> m.name,
     ns |-> IF m.namespaced /\ m.ns = "" THEN SubNamespace ELSE m.ns,
     annos |-> m.annos, partOf |-> FALSE]

scopeNamespace(c, m) ==
    [id |-> m.id, api |-> m.api, kind |-> m.kind, name |-> m.name,
     ns |-> IF ~m.namespaced THEN m.ns
            ELSE IF c.clusterAdmin
                 THEN IF m.ns # ""
                      THEN IF c.nsScoped THEN SubNamespace ELSE m.ns
                      ELSE SubNamespace
                 ELSE SubNamespace,
     annos |-> IF /\ m.namespaced
                  /\ c.clusterAdmin
                  /\ EqualFold(GroupOf(m.api), SubscriptionGroup)
                  /\ EqualFold(m.kind, "Subscription")
               THEN Put(m.annos, AnnotationClusterAdmin, "true")
               ELSE m.annos,
     partOf |-> FALSE]

\* lines 701-703: the cluster-admin marker inherited from the subscription
inheritClusterAdmin(c, an) ==
    IF EqualFold(Get(c.subAnnos, AnnotationClusterAdmin), "true")
    THEN Put(an, AnnotationClusterAdmin, "true")
    ELSE an

\* lines 705-713: the reconcile option of the resource, else of the subscription
inheritReconcileOption(c, an) ==
    IF Get(an, AnnotationResourceReconcileOption) # "" THEN an
    ELSE IF Get(c.subAnnos, AnnotationResourceReconcileOption) # ""
         THEN Put(an, AnnotationResourceReconcileOption,
                  Get(c.subAnnos, AnnotationResourceReconcileOption))
         ELSE Put(an, AnnotationResourceReconcileOption, MergeReconcile)

\* lines 694-716
inheritAnnotations(c, an) ==
    IF c.subHasAnnos
    THEN inheritReconcileOption(c, inheritClusterAdmin(c, an))
    ELSE an

\* lines 669-724, on the resource rsc made of the manifest m
filterAndOverride(c, m, rsc) ==
    IF c.hasFilter /\ checkFilters(c, m, rsc) # ""
    THEN [ok |-> FALSE, rsc |-> NoResource, err |-> ""]
    ELSE IF c.overrides /\ m.ovErr
    THEN [ok |-> FALSE, rsc |-> NoResource, err |-> "Failed override package"]
    ELSE [ok |-> TRUE,
          rsc |-> [rsc EXCEPT !.annos = inheritAnnotations(c, rsc.annos),
                              !.partOf = TRUE],
          err |-> ""]

(***************************************************************************)
(* subscribeResource (git_subscriber_item.go:603-724): ok and the resource *)
(* to sync, or ~ok (nil, nil) with the error ("" for a nil error).         *)
(***************************************************************************)
subscribeResource(c, m) ==
    IF m.bad
    THEN [ok |-> FALSE, rsc |-> NoResource, err |-> "unmarshal"]
    ELSE filterAndOverride(c, m, scopeNamespace(c, m))

\* a list that is cleaned up when one resource fails, as it is when a Kustomize
\* build fails
clearOnFailure(res, r) == IF r.ok THEN Append(res, r.rsc) ELSE <<>>

\* subscribeResourceFile (git_subscriber_item.go:588-601)
appendResource(res, r) == IF r.ok THEN Append(res, r.rsc) ELSE res

subscribeResourceFile(c, res, m) == appendResource(res, subscribeResource(c, m))

(***************************************************************************)
(* The repository tree.  Files and directories are named; the catalogue    *)
(* gives what each holds.                                                  *)
(*   file:      readErr (os.ReadFile fails), docs (its YAML documents)     *)
(*   kustomize: ovErr (VerifyAndOverrideKustomize fails), buildErr         *)
(*              (RunKustomizeBuild fails), out (the build's documents)     *)
(*   chart:     crErr (CreateHelmCRManifest fails)                         *)
(***************************************************************************)
FileOf(f) ==
    CASE f = "crds.yaml" -> [readErr |-> FALSE, docs |-> <<MNamespace, MCrd>>]
      [] f = "rbac.yaml" -> [readErr |-> FALSE, docs |-> <<MRole>>]
      [] f = "deploy.yaml" -> [readErr |-> FALSE, docs |-> <<MDeployA, MDeployB>>]
      [] f = "mixed.yaml" ->
            [readErr |-> FALSE, docs |-> <<MLoose, MBad, MDeployOv, MSubChild>>]
      [] OTHER -> [readErr |-> TRUE, docs |-> <<>>]

KustomizeOf(d) ==
    CASE d = "kOK" -> [ovErr |-> FALSE, buildErr |-> FALSE, out |-> <<MDeployA>>]
      [] d = "kSub" ->
            [ovErr |-> FALSE, buildErr |-> FALSE, out |-> <<MSubAdmin, MLoose, MSubChild>>]
      [] d = "kOvFail" -> [ovErr |-> TRUE, buildErr |-> FALSE, out |-> <<>>]
      [] OTHER -> [ovErr |-> FALSE, buildErr |-> TRUE, out |-> <<>>]

ChartOf(ch) ==
    CASE ch = "chartA" -> [crErr |-> FALSE]
      [] ch = "chartB" -> [crErr |-> FALSE]
      [] OTHER -> [crErr |-> TRUE]


\* the orders in which a Go map with the keys S may be ranged over
Orders(S) ==
    { o \in [1..Cardinality(S) -> S] : \A i, j \in 1..Cardinality(S) : i # j => o[i] # o[j] }

helmGvkKind == "HelmRelease"

(***************************************************************************)
(* utils.ParseKubeResoures: the documents of a file that are Kubernetes    *)
(* resources (both apiVersion and kind present).                           *)
(***************************************************************************)
ParseKubeResoures(docs) ==
    SelectSeq(docs, LAMBDA d : d.bad \/ ~(d.api = "" \/ d.kind = ""))

(***************************************************************************)
(* subscribeResources (git_subscriber_item.go:526-586): the documents of   *)
(* the files, in order; a file that cannot be read ends the bucket with    *)
(* an error.  Result: [res, err].                                          *)
(***************************************************************************)
\* lines 553-578: the acting user's identity on a Subscription
injectIdentity(c, m) ==
    IF m.kind = "Subscription"
    THEN [m EXCEPT !.annos = Put(Put(m.annos, AnnotationUserIdentity, c.userID),
                                 AnnotationUserGroup, c.userGroup)]
    ELSE m

RECURSIVE subscribeDocs(_, _, _)
subscribeDocs(c, res, docs) ==
    IF docs = <<>> THEN res
    ELSE IF Head(docs).bad
         THEN subscribeDocs(c, res, Tail(docs))
         ELSE subscribeDocs(
                  c, subscribeResourceFile(c, res, injectIdentity(c, Head(docs))),
                  Tail(docs))

RECURSIVE subscribeResources(_, _, _)
subscribeResources(c, res, rscFiles) ==
    IF rscFiles = <<>> THEN [res |-> res, err |-> ""]
    ELSE IF FileOf(Head(rscFiles)).readErr
         THEN [res |-> res, err |-> "read " \o Head(rscFiles)]
         ELSE subscribeResources(
                  c,
                  subscribeDocs(c, res, ParseKubeResoures(FileOf(Head(rscFiles)).docs)),
                  Tail(rscFiles))

(***************************************************************************)
(* checkSubscriptionAnnotation (git_subscriber_item.go:514-524): TRUE when *)
(* it returns an error.                                                    *)
(***************************************************************************)
checkSubscriptionAnnotation(m) ==
    /\ EqualFold(m.api, SubscriptionGroupVersion)
    /\ EqualFold(m.kind, "Subscription")
    /\ EqualFold(Get(m.annos, AnnotationClusterAdmin), "true")

(***************************************************************************)
(* The loop over one Kustomize build's output                              *)
(* (git_subscriber_item.go:485-508).  The error of                         *)
(* checkSubscriptionAnnotation is logged and the resource is subscribed    *)
(* all the same.                                                           *)
(***************************************************************************)
RECURSIVE subscribeKustomizeOutput(_, _, _)
subscribeKustomizeOutput(c, res, out) ==
    IF out = <<>> THEN res
    ELSE IF Head(out).bad \/ Head(out).api = "" \/ Head(out).kind = ""
         THEN subscribeKustomizeOutput(c, res, Tail(out))
         ELSE subscribeKustomizeOutput(
                  c, subscribeResourceFile(c, res, Head(out)), Tail(out))

(***************************************************************************)
(* subscribeKustomizations (git_subscriber_item.go:453-512) over the       *)
(* kustomize directories in the order the map is ranged over.              *)
(***************************************************************************)
RECURSIVE subscribeKustomizations(_, _, _)
subscribeKustomizations(c, res, dirs) ==
    IF dirs = <<>> THEN [res |-> res, err |-> ""]
    ELSE IF KustomizeOf(Head(dirs)).ovErr
         THEN [res |-> <<>>, err |-> "override " \o Head(dirs)]
         ELSE IF KustomizeOf(Head(dirs)).buildErr
         THEN [res |-> <<>>, err |-> "build " \o Head(dirs)]
         ELSE subscribeKustomizations(
                  c, subscribeKustomizeOutput(c, res, KustomizeOf(Head(dirs)).out),
                  Tail(dirs))

(***************************************************************************)
(* subscribeHelmCharts (git_subscriber_item.go:778-795) over the index     *)
(* entries in the order the map is ranged over.                            *)
(***************************************************************************)
RECURSIVE subscribeHelmCharts(_, _, _)
subscribeHelmCharts(c, res, entries) ==
    IF entries = <<>> THEN [res |-> res, err |-> ""]
    ELSE IF ChartOf(Head(entries)).crErr
         THEN [res |-> res, err |-> "helmrelease " \o Head(entries)]
         ELSE subscribeHelmCharts(
                  c,
                  Append(res, [NoResource EXCEPT !.id = Head(entries),
                                                 !.api = SubscriptionGroupVersion,
                                                 !.kind = helmGvkKind,
                                                 !.name = Head(entries)]),
                  Tail(entries))

(***************************************************************************)
(* The SubscriberItem's mutable fields as one record g:                    *)
(*   count, commitID, successful, resources, sorted                        *)
(* and sorted = [chartDirs, kustomizeDirs, crds, rbac, other, indexNil,    *)
(* index]; a nil slice or map is the empty one, indexNil says that         *)
(* ghsi.indexFile is nil.                                                  *)
(***************************************************************************)
NilSorted ==
    [chartDirs |-> {}, kustomizeDirs |-> {}, crds |-> <<>>, rbac |-> <<>>,
     other |-> <<>>, indexNil |-> TRUE, index |-> {}]

\* the tick count at which "medium" reconciles without comparing commits
ForceResyncCount == 6

(***************************************************************************)
(* sortClonedGitRepo (git_subscriber_item.go:877-936): [sorted, err].      *)
(* utils.SortResources gives the tree's buckets or fails;                  *)
(* utils.GenerateHelmIndexFile gives the index of the chart directories or *)
(* fails after the buckets were stored.                                    *)
(***************************************************************************)
storeBuckets(srt, tree) ==
    [srt EXCEPT !.chartDirs = tree.charts, !.kustomizeDirs = tree.kdirs,
                !.crds = tree.crds, !.rbac = tree.rbac, !.other = tree.other]

sortClonedGitRepo(srt, tree) ==
    IF tree.sortErr THEN [sorted |-> srt, err |-> "sort"]
    ELSE IF tree.indexErr
         THEN [sorted |-> storeBuckets(srt, tree), err |-> "index"]
         ELSE [sorted |-> [storeBuckets(srt, tree) EXCEPT !.indexNil = FALSE,
                                                          !.index = tree.charts],
               err |-> ""]

\* errMsg += err.Error(), with ", " between the parts (a sequence of parts)
AddErr(errMsg, err) == IF err = "" THEN errMsg ELSE Append(errMsg, err)

NoObs ==
    [kind |-> "none", fetched |-> FALSE, commit |-> "", classified |-> FALSE,
     kusErr |-> "", overallStatus |-> FALSE, decided |-> FALSE,
     atDecision |-> <<>>, successfulAtDecision |-> FALSE,
     errMsg |-> <<>>, processCalled |-> FALSE, isErr |-> FALSE, msg |-> <<>>]

(***************************************************************************)
(* The medium-rate drift policy (git_subscriber_item.go:282-301):          *)
(* [count, skip] after a successful fetch of commit.                       *)
(***************************************************************************)
\* the policy with the forced resync one tick later
lateResyncPolicy(g, commit) ==
    IF g.commitID = "" THEN [count |-> g.count + 1, skip |-> FALSE]
    ELSE IF g.count + 1 < ForceResyncCount + 1
         THEN [count |-> g.count + 1,
               skip |-> commit = g.commitID /\ g.successful]
         ELSE [count |-> 0, skip |-> FALSE]

\* the policy that never skips
resyncAlways(g, commit) == [count |-> g.count + 1, skip |-> FALSE]

\* the policy that compares the commits and forgets the successful flag
skipUnlessChanged(g, commit) ==
    IF g.commitID = "" THEN [count |-> g.count + 1, skip |-> FALSE]
    ELSE IF g.count + 1 < ForceResyncCount
         THEN [count |-> g.count + 1, skip |-> commit = g.commitID]
         ELSE [count |-> 0, skip |-> FALSE]

mediumPolicy(g, commit) ==
    IF g.commitID = "" THEN [count |-> g.count + 1, skip |-> FALSE]
    ELSE IF g.count + 1 < ForceResyncCount
         THEN [count |-> g.count + 1,
               skip |-> commit = g.commitID /\ g.successful]
         ELSE [count |-> 0, skip |-> FALSE]

(***************************************************************************)
(* The decision after all buckets (git_subscriber_item.go:413-426): TRUE   *)
(* when the attempt quits instead of applying the list.                    *)
(***************************************************************************)
\* the decision that never quits
applyAlways(res, ok) == FALSE

quitOnEmpty(res, ok) == Len(res) = 0 /\ ~ok

(***************************************************************************)
(* The buckets of one attempt (git_subscriber_item.go:317-403).  acc is    *)
(* [res, successful, errMsg, kusErr]: the resource list, the successful    *)
(* flag, errMsg and the Kustomize error so far; b is what a bucket's step  *)
(* returned, [res, err].                                                   *)
(***************************************************************************)
\* lines 321-329, 333-345, 349-361, 391-403
afterBucket(acc, b) ==
    [acc EXCEPT !.res = b.res,
                !.successful = acc.successful /\ b.err = "",
                !.errMsg = AddErr(acc.errMsg, b.err)]

\* lines 365-387
afterKustomize(acc, b) ==
    [acc EXCEPT !.res = b.res,
                !.successful = acc.successful /\ b.err = "",
                !.errMsg = IF b.err = "" THEN acc.errMsg
                           ELSE <<"failed to apply klustomization: " \o b.err>>
                                \o acc.errMsg,
                !.kusErr = b.err]

fileBucket(c, acc, files) == afterBucket(acc, subscribeResources(c, acc.res, files))
kustomizeBucket(c, acc, dirs) ==
    afterKustomize(acc, subscribeKustomizations(c, acc.res, dirs))
helmBucket(c, acc, entries) == afterBucket(acc, subscribeHelmCharts(c, acc.res, entries))

subscribeBuckets(c, res, ok, srt, in) ==
    helmBucket(c,
        kustomizeBucket(c,
            fileBucket(c,
                fileBucket(c,
                    fileBucket(c,
                        [res |-> res, successful |-> ok, errMsg |-> <<>>,
                         kusErr |-> ""],
                        srt.crds),
                    srt.rbac),
                srt.other),
            in.korder),
        in.horder)

(***************************************************************************)
(* doSubscription (git_subscriber_item.go:181-451): one reconciliation     *)
(* attempt on the item g with the inputs                                   *)
(*   in.fetch    "ERR" or the commit id cloneGitRepo returns               *)
(*   in.tree     what utils.SortResources finds                            *)
(*   in.korder, in.horder  the orders the two maps are ranged over         *)
(*   in.applyErr ProcessSubResources fails                                 *)
(* Result: [g, o]: the item afterwards and what the attempt did.           *)
(***************************************************************************)
Fetched(in) == [NoObs EXCEPT !.fetched = TRUE, !.commit = in.fetch]

Decided(in, b) ==
    [Fetched(in) EXCEPT !.classified = TRUE, !.kusErr = b.kusErr,
                        !.overallStatus = (b.kusErr # ""),
                        !.decided = TRUE, !.atDecision = b.res,
                        !.successfulAtDecision = b.successful,
                        !.errMsg = b.errMsg]

\* an attempt that records the commit before it applies the list
recordBeforeApply(g, in, b) ==
    IF quitOnEmpty(b.res, b.successful)
    THEN [g |-> g,
          o |-> [Decided(in, b) EXCEPT !.kind = "empty", !.isErr = TRUE,
                                       !.msg = b.errMsg]]
    ELSE IF in.applyErr
    THEN [g |-> [g EXCEPT !.commitID = in.fetch, !.successful = FALSE],
          o |-> [Decided(in, b) EXCEPT !.kind = "applyfail", !.processCalled = TRUE,
                                       !.isErr = TRUE, !.msg = <<"apply">>]]
    ELSE [g |-> [g EXCEPT !.commitID = in.fetch, !.resources = <<>>,
                          !.sorted = NilSorted, !.successful = TRUE],
          o |-> [Decided(in, b) EXCEPT !.kind = "applied", !.processCalled = TRUE]]

\* lines 405-451: g holds the buckets' resources and successful flag
applyResources(g, in, b) ==
    IF quitOnEmpty(b.res, b.successful)
    THEN [g |-> g,
          o |-> [Decided(in, b) EXCEPT !.kind = "empty", !.isErr = TRUE,
                                       !.msg = b.errMsg]]
    ELSE IF in.applyErr
    THEN [g |-> [g EXCEPT !.successful = FALSE],
          o |-> [Decided(in, b) EXCEPT !.kind = "applyfail", !.processCalled = TRUE,
                                       !.isErr = TRUE, !.msg = <<"apply">>]]
    ELSE [g |-> [g EXCEPT !.commitID = in.fetch, !.resources = <<>>,
                          !.sorted = NilSorted, !.successful = TRUE],
          o |-> [Decided(in, b) EXCEPT !.kind = "applied", !.processCalled = TRUE]]

\* lines 317-403
afterBuckets(g, in, b) ==
    applyResources([g EXCEPT !.resources = b.res, !.successful = b.successful], in, b)

\* lines 303-315: g.resources was emptied, st is what sortClonedGitRepo returned
afterSort(c, g, in, st) ==
    IF st.err # ""
    THEN [g |-> [g EXCEPT !.sorted = st.sorted, !.successful = FALSE],
          o |-> [Fetched(in) EXCEPT !.kind = "sortfail", !.isErr = TRUE,
                                    !.msg = <<st.err>>]]
    ELSE afterBuckets([g EXCEPT !.sorted = st.sorted], in,
                      subscribeBuckets(c, g.resources, g.successful, st.sorted, in))

\* an attempt that goes on with the list the item holds
keepResources(g) == g

\* line 303: ghsi.resources = []kubesynchronizer.ResourceUnit{}
resetResources(g) == [g EXCEPT !.resources = <<>>]

\* lines 282-315: med is the drift policy's answer
afterFetch(c, g, in, med) ==
    IF med.skip
    THEN [g |-> [g EXCEPT !.count = med.count],
          o |-> [Fetched(in) EXCEPT !.kind = "skip"]]
    ELSE afterSort(c, resetResources([g EXCEPT !.count = med.count]), in,
                   sortClonedGitRepo(g.sorted, in.tree))

\* a webhook test that forgets the successful flag
webhookAlone(c, g) == c.webhook

\* lines 187-201: webhook enabled and everything reconciled: wait for the event
webhookSkips(c, g) == c.webhook /\ g.successful

doSubscription(c, g, in) ==
    IF webhookSkips(c, g)
    THEN [g |-> g, o |-> [NoObs EXCEPT !.kind = "webhook"]]
    ELSE IF in.fetch = "ERR"
    THEN [g |-> [g EXCEPT !.successful = FALSE],
          o |-> [NoObs EXCEPT !.kind = "fetchfail", !.isErr = TRUE,
                              !.msg = <<"clone">>]]
    ELSE afterFetch(c, g, in,
                    IF EqualFold(c.rate, "medium")
                    THEN mediumPolicy(g, in.fetch)
                    ELSE [count |-> g.count, skip |-> FALSE])

(***************************************************************************)
(* The inputs of the subscriber item.                                      *)
(***************************************************************************)
Tree(crds, rbac, other, kdirs, charts) ==
    [crds |-> crds, rbac |-> rbac, other |-> other, kdirs |-> kdirs,
     charts |-> charts, sortErr |-> FALSE, indexErr |-> FALSE]

EmptyTree == Tree(<<>>, <<>>, <<>>, {}, {})

Commits == {"c1", "c2"}
Repos == {"plain", "kfail", "ksub", "broken", "empty", "helm"}

\* what utils.SortResources finds in the clone of repo at commit
TreeOf(repo, commit) ==
    CASE repo = "plain" /\ commit = "c1" ->
            Tree(<<"crds.yaml">>, <<>>, <<"deploy.yaml">>, {}, {})
      [] repo = "plain" /\ commit = "c2" ->
            Tree(<<"crds.yaml">>, <<"rbac.yaml">>, <<"mixed.yaml">>, {"kOK"}, {"chartA"})
      [] repo = "kfail" /\ commit = "c1" ->
            Tree(<<"crds.yaml">>, <<"rbac.yaml">>, <<>>, {"kOK", "kBuildFail"}, {"chartA"})
      [] repo = "kfail" /\ commit = "c2" ->
            Tree(<<"crds.yaml">>, <<>>, <<"deploy.yaml">>, {"kOK", "kBuildFail"}, {})
      [] repo = "ksub" /\ commit = "c1" ->
            Tree(<<>>, <<>>, <<>>, {"kSub", "kOvFail"}, {"chartA", "chartB"})
      [] repo = "ksub" /\ commit = "c2" ->
            Tree(<<>>, <<>>, <<>>, {"kSub"}, {})
      [] repo = "broken" /\ commit = "c1" ->
            [EmptyTree EXCEPT !.sortErr = TRUE]
      [] repo = "broken" /\ commit = "c2" ->
            [Tree(<<"crds.yaml">>, <<>>, <<>>, {}, {"chartA"}) EXCEPT !.indexErr = TRUE]
      [] repo = "empty" /\ commit = "c1" -> EmptyTree
      [] repo = "empty" /\ commit = "c2" ->
            Tree(<<>>, <<"rbac.yaml">>, <<"unreadable.yaml", "deploy.yaml">>, {}, {})
      [] repo = "helm" /\ commit = "c1" ->
            Tree(<<>>, <<>>, <<"deploy.yaml">>, {}, {"chartA", "chartBad"})
      [] OTHER ->
            Tree(<<>>, <<>>, <<"unreadable.yaml", "deploy.yaml">>, {}, {})

(***************************************************************************)
(* The inputs of one attempt on a clone of repo: the fetch's outcome, the  *)
(* tree of the fetched commit, the orders in which the two maps are        *)
(* ranged over and the outcome of ProcessSubResources.                     *)
(***************************************************************************)
Inputs(repo) ==
    { [fetch |-> "ERR", tree |-> EmptyTree, korder |-> <<>>, horder |-> <<>>,
       applyErr |-> FALSE] }
    \cup
    UNION { { [fetch |-> c, tree |-> TreeOf(repo, c), korder |-> ko, horder |-> ho,
               applyErr |-> ae] :
                 ko \in Orders(TreeOf(repo, c).kdirs),
                 ho \in Orders(TreeOf(repo, c).charts),
                 ae \in BOOLEAN } : c \in Commits }

BaseCfg ==
    [rate |-> "low", retries |-> 0, webhook |-> FALSE, repo |-> "plain",
     clusterAdmin |-> FALSE, nsScoped |-> FALSE, subHasAnnos |-> FALSE,
     subAnnos |-> EmptyMap, pkg |-> "", hasFilter |-> FALSE,
     filterHasAnnos |-> FALSE, filterAnnos |-> EmptyMap, overrides |-> FALSE,
     userID |-> "alice", userGroup |-> "devs"]

Rates == {"off", "low"}

\* the constructions of the item the model runs
Configs ==
    { [BaseCfg EXCEPT !.rate = r, !.retries = n, !.webhook = w, !.repo = p] :
          r \in Rates, n \in 0..MaxRetries, w \in BOOLEAN, p \in {"plain", "empty"} }
    \cup
    { [BaseCfg EXCEPT !.rate = "medium"],
      [BaseCfg EXCEPT !.rate = "MEDIUM", !.webhook = TRUE],
      [BaseCfg EXCEPT !.rate = "Medium", !.repo = "empty", !.retries = MaxRetries],
      [BaseCfg EXCEPT !.rate = "Off", !.retries = MaxRetries] }
    \cup
    { [BaseCfg EXCEPT !.repo = p] : p \in Repos }
    \cup
    { [c EXCEPT !.repo = p] :
        p \in {"plain", "ksub"},
        c \in { [BaseCfg EXCEPT !.clusterAdmin = TRUE, !.subHasAnnos = TRUE,
                        !.subAnnos = Put(EmptyMap, AnnotationClusterAdmin, "true")],
                [BaseCfg EXCEPT !.clusterAdmin = TRUE, !.nsScoped = TRUE],
                [BaseCfg EXCEPT !.pkg = "a", !.hasFilter = TRUE],
                [BaseCfg EXCEPT !.pkg = "a"],
                [BaseCfg EXCEPT !.hasFilter = TRUE, !.filterHasAnnos = TRUE,
                        !.filterAnnos = Put(EmptyMap, AnnotationClusterAdmin, "True")],
                [BaseCfg EXCEPT !.overrides = TRUE, !.subHasAnnos = TRUE,
                        !.subAnnos = Put(EmptyMap, AnnotationResourceReconcileOption,
                                         "replace")] } }

Item == [count |-> count, commitID |-> commitID, successful |-> successful,
         resources |-> resources, sorted |-> sorted]

NoLoop == [active |-> FALSE, n |-> 0]

\* no attempt of the worker is under way
NoInput == [fetch |-> "", tree |-> EmptyTree, korder |-> <<>>, horder |-> <<>>,
            applyErr |-> FALSE]
NoFlight == [active |-> FALSE, in |-> NoInput]

(***************************************************************************)
(* How the steady-run counter moves with a tick: a run is steady from      *)
(* Start on while its first tick applied and every later tick fetched the  *)
(* same commit, one attempt per tick; n is the number of the last tick.    *)
(***************************************************************************)
NotSteady == [n |-> 0, steady |-> FALSE, commit |-> ""]
FreshRun == [n |-> 0, steady |-> TRUE, commit |-> ""]

NextTicks(t, o) ==
    IF t.steady /\ t.n = 0
    THEN IF o.kind = "applied"
         THEN [n |-> 1, steady |-> TRUE, commit |-> o.commit]
         ELSE NotSteady
    ELSE IF t.steady /\ t.n < MaxTicks /\ o.fetched /\ o.commit = t.commit
         THEN [t EXCEPT !.n = t.n + 1]
         ELSE NotSteady

(***************************************************************************)
(* One pass of the loop of doSubscriptionWithRetries                       *)
(* (git_subscriber_item.go:153-179) run by w (0: the caller of Start, else *)
(* the worker of channel w): attempt number n, the status update, and      *)
(* whether another attempt follows the sleep.                              *)
(***************************************************************************)
\* a loop that counts its attempts and looks at nothing else
retryWhileCounting(n, g) == n + 1 <= cfg.retries

\* whether the loop sleeps and attempts again (git_subscriber_item.go:172-177)
retryAfter(n, g) == ~g.successful /\ n + 1 <= cfg.retries

LoopResult(w, n, r) ==
    /\ r.g.count <= MaxCount
    /\ count' = r.g.count
    /\ commitID' = r.g.commitID
    /\ successful' = r.g.successful
    /\ resources' = r.g.resources
    /\ sorted' = r.g.sorted
    /\ obs' = r.o
    /\ status' = IF r.o.isErr
                 THEN [phase |-> "Failed", msg |-> r.o.msg]
                 ELSE [phase |-> "Subscribed", msg |-> <<>>]
    /\ loop' = [loop EXCEPT ![w] =
                   IF retryAfter(n, r.g)
                   THEN [active |-> TRUE, n |-> n + 1]
                   ELSE NoLoop]

LoopPass(w, n, g, in) == LoopResult(w, n, doSubscription(cfg, g, in))

\* Stop (git_subscriber_item.go:147-151): close(ghsi.stopch)
CloseCh(cl, ch) == [cl EXCEPT ![ch] = IF @ < 2 THEN @ + 1 ELSE @]

\* closing a closed channel panics, and the process is gone
Panicked == \E ch \in DOMAIN closed : closed[ch] > 1

(***************************************************************************)
(* The record of the last step: the operation, the goroutine that ran it   *)
(* (0: the caller of Start or Stop), whether it made an attempt and which  *)
(* one of its loop, the number of the worker's tick since Start (2: a      *)
(* later one), the time window and the pause label the step met, and how  *)
(* many ticks in a row, up to this step, the drift policy has skipped.     *)
(***************************************************************************)
NoEvent ==
    [op |-> "", restart |-> FALSE, w |-> 0, attempt |-> FALSE, n |-> 0,
     tick |-> 0, blocked |-> FALSE, paused |-> FALSE, skips |-> 0]

Event(op, w) ==
    [NoEvent EXCEPT !.op = op, !.w = w, !.tick = event.tick,
                    !.skips = event.skips]

Attempt(op, w, n) == [Event(op, w) EXCEPT !.attempt = TRUE, !.n = n, !.skips = 0]

\* the skipped ticks in a row after a tick that did o
NextSkips(o) ==
    IF o.kind = "skip"
    THEN IF event.skips < ForceResyncCount THEN event.skips + 1 ELSE event.skips
    ELSE 0

NextTick == IF event.tick < 2 THEN event.tick + 1 ELSE 2

(***************************************************************************)
(* Start (git_subscriber_item.go:96-145).  With the rate "off" the first   *)
(* attempt runs in the caller; otherwise a worker is started, whose first  *)
(* tick is immediate.  A restart calls Stop on the channel the item holds, *)
(* closed or not.                                                          *)
(***************************************************************************)
\* a comparison of the rate that tells "Off" from "off"
exactOff(c) == c.rate = "off"

\* strings.EqualFold(ghsi.reconcileRate, "off") (git_subscriber_item.go:115)
reconcileOff(c) == EqualFold(c.rate, "off")

\* a Start that restarts whatever its argument says
alwaysRestart(restart) == FALSE

StartReturnsEarly(restart) == stopch # 0 /\ ~restart

StartPanics(restart) == stopch # 0 /\ restart /\ closed[stopch] > 0

Start(restart, blocked, paused) ==
    /\ ~Panicked
    /\ IF StartReturnsEarly(restart)
       THEN /\ event' = [Event("Start", 0) EXCEPT !.restart = restart]
            /\ UNCHANGED <<cfg, stopch, closed, workers, loop, count, commitID,
                           successful, resources, sorted, status, obs, ticks>>
       ELSE IF StartPanics(restart)
       THEN /\ closed' = CloseCh(closed, stopch)
            /\ event' = [Event("Start", 0) EXCEPT !.restart = restart]
            /\ UNCHANGED <<cfg, stopch, workers, loop, count, commitID,
                           successful, resources, sorted, status, obs, ticks>>
       ELSE /\ Len(closed) < MaxStarts
            /\ ~loop[0].active
            /\ closed' = Append(IF stopch # 0 THEN CloseCh(closed, stopch)
                                ELSE closed, 0)
            /\ stopch' = Len(closed) + 1
            /\ ticks' = IF reconcileOff(cfg) THEN NotSteady ELSE FreshRun
            /\ IF reconcileOff(cfg)
               THEN /\ workers' = workers
                    /\ event' = [Attempt("Start", 0, 0) EXCEPT
                                    !.restart = restart, !.tick = 0,
                                    !.blocked = blocked, !.paused = paused]
                    /\ \E in \in Inputs(cfg.repo) :
                          LoopPass(0, 0, [Item EXCEPT !.count = 0], in)
               ELSE /\ workers' = workers \cup {Len(closed) + 1}
                    /\ count' = 0
                    /\ event' = [Event("Start", 0) EXCEPT
                                    !.restart = restart, !.tick = 0]
                    /\ UNCHANGED <<commitID, successful, resources, sorted,
                                   status, obs, loop>>
            /\ UNCHANGED cfg

Stop ==
    /\ ~Panicked
    /\ stopch # 0
    /\ closed' = CloseCh(closed, stopch)
    /\ event' = Event("Stop", 0)
    /\ UNCHANGED <<cfg, stopch, workers, loop, count, commitID, successful,
                   resources, sorted, status, obs, ticks>>

(***************************************************************************)
(* One firing of the function wait.Until runs                              *)
(* (git_subscriber_item.go:123-144) by the worker of channel ch: the time  *)
(* window, the pause label, then the first pass of the retry loop.         *)
(***************************************************************************)
Tick(ch, blocked, paused) ==
    /\ ~Panicked
    /\ ch \in workers
    /\ closed[ch] = 0
    /\ ~loop[ch].active
    /\ ~inflight[ch].active
    /\ IF blocked \/ paused
       THEN /\ obs' = [NoObs EXCEPT !.kind = "gated"]
            /\ ticks' = NotSteady
            /\ event' = [Event("Tick", ch) EXCEPT !.tick = NextTick,
                            !.blocked = blocked, !.paused = paused,
                            !.skips = 0]
            /\ UNCHANGED <<loop, count, commitID, successful, resources, sorted,
                           status>>
       ELSE \E in \in Inputs(cfg.repo) :
                /\ LoopPass(ch, 0, Item, in)
                /\ ticks' = NextTicks(ticks, obs')
                /\ event' = [Attempt("Tick", ch, 0) EXCEPT
                                !.tick = NextTick, !.skips = NextSkips(obs')]
    /\ UNCHANGED <<cfg, stopch, closed, workers>>

\* a later pass of the retry loop, after time.Sleep(retryInterval)
Retry(w) ==
    /\ ~Panicked
    /\ loop[w].active
    /\ \E in \in Inputs(cfg.repo) : LoopPass(w, loop[w].n, Item, in)
    /\ ticks' = NotSteady
    /\ event' = Attempt("Retry", w, loop[w].n)
    /\ UNCHANGED <<cfg, stopch, closed, workers>>

\* wait.Until returns once its stop channel is closed
WorkerExit(ch) ==
    /\ ~Panicked
    /\ ch \in workers
    /\ closed[ch] > 0
    /\ ~loop[ch].active
    /\ ~inflight[ch].active
    /\ workers' = workers \ {ch}
    /\ event' = Event("WorkerExit", ch)
    /\ UNCHANGED <<cfg, stopch, closed, loop, count, commitID, successful,
                   resources, sorted, status, obs, ticks>>

SyncInit ==
    /\ cfg \in Configs
    /\ stopch = 0
    /\ closed = <<>>
    /\ workers = {}
    /\ loop = [w \in 0..MaxStarts |-> NoLoop]
    /\ count = 0
    /\ commitID = ""
    /\ successful = FALSE
    /\ resources = <<>>
    /\ sorted = NilSorted
    /\ status = [phase |-> "", msg |-> <<>>]
    /\ obs = NoObs
    /\ ticks = NotSteady
    /\ event = NoEvent
    /\ inflight = [w \in 1..MaxStarts |-> NoFlight]

HookIdle ==
    /\ registry = EmptyMap
    /\ cluster = EmptyMap
    /\ ret = EmptyMap
    /\ lastCall = EmptyMap
    /\ suffixFunc = "suffixFromUUID"

\* the placement rule controller is not running
PlaceIdle ==
    /\ managed = EmptyMap
    /\ prule = EmptyMap
    /\ requests = FALSE
    /\ pevent = EmptyMap

StartCall ==
    /\ \E restart, blocked, paused \in BOOLEAN : Start(restart, blocked, paused)
    /\ UNCHANGED <<hookVars, placeVars, inflight>>
StopCall == Stop /\ UNCHANGED <<hookVars, placeVars, inflight>>
TickCall ==
    /\ \E ch \in 1..MaxStarts, blocked, paused \in BOOLEAN : Tick(ch, blocked, paused)
    /\ UNCHANGED <<hookVars, placeVars, inflight>>
RetryCall == (\E w \in 0..MaxStarts : Retry(w)) /\ UNCHANGED <<hookVars, placeVars, inflight>>
WorkerExitCall == (\E ch \in 1..MaxStarts : WorkerExit(ch)) /\ UNCHANGED <<hookVars, placeVars, inflight>>

SyncSpecInit == SyncInit /\ HookIdle /\ PlaceIdle

SyncNext ==
    \/ StartCall
    \/ StopCall
    \/ TickCall
    \/ RetryCall
    \/ WorkerExitCall

SyncSpec == SyncSpecInit /\ [][SyncNext]_vars

(***************************************************************************)
(* The attempt in two steps.  In SyncSpec a tick's attempt is one step; in *)
(* RaceSpec the worker of channel ch may also run it in two: up to the     *)
(* classification (git_subscriber_item.go:181-315), then the buckets, the  *)
(* decision and the apply (317-451), each on the item as it is by then,    *)
(* the item having no lock.  Start and Stop may come in between: wait.Until *)
(* looks at its stop channel between two firings only, and the goroutine   *)
(* Start makes fires at once.                                              *)
(***************************************************************************)
\* lines 181-315 of an attempt that reaches the buckets
BeginAttempt(ch, in, med, st) ==
    /\ ~Panicked
    /\ ch \in workers
    /\ closed[ch] = 0
    /\ ~loop[ch].active
    /\ ~inflight[ch].active
    /\ ~webhookSkips(cfg, Item)
    /\ in.fetch # "ERR" /\ ~med.skip /\ st.err = ""
    /\ med.count <= MaxCount
    /\ count' = med.count
    /\ resources' = resetResources(Item).resources
    /\ sorted' = st.sorted
    /\ inflight' = [inflight EXCEPT ![ch] = [active |-> TRUE, in |-> in]]
    /\ ticks' = NotSteady
    /\ event' = [Event("BeginAttempt", ch) EXCEPT !.tick = NextTick, !.skips = 0]
    /\ UNCHANGED <<cfg, stopch, closed, workers, loop, commitID, successful,
                   status, obs>>

\* lines 317-451 and the status update of doSubscriptionWithRetries
FinishAttempt(ch) ==
    /\ ~Panicked
    /\ inflight[ch].active
    /\ LoopResult(ch, 0,
                  afterBuckets(Item, inflight[ch].in,
                               subscribeBuckets(cfg, resources, successful, sorted,
                                                inflight[ch].in)))
    /\ inflight' = [inflight EXCEPT ![ch] = NoFlight]
    /\ ticks' = NotSteady
    /\ event' = Attempt("Tick", ch, 0)
    /\ UNCHANGED <<cfg, stopch, closed, workers>>

BeginAttemptCall ==
    /\ \E ch \in 1..MaxStarts, in \in Inputs(cfg.repo) :
          BeginAttempt(ch, in,
                       IF EqualFold(cfg.rate, "medium")
                       THEN mediumPolicy(Item, in.fetch)
                       ELSE [count |-> count, skip |-> FALSE],
                       sortClonedGitRepo(sorted, in.tree))
    /\ UNCHANGED <<hookVars, placeVars>>

FinishAttemptCall ==
    (\E ch \in 1..MaxStarts : FinishAttempt(ch)) /\ UNCHANGED <<hookVars, placeVars>>

\* the items RaceSpec runs: no retries, the rates "low" and "medium"
RaceConfigs == { BaseCfg, [BaseCfg EXCEPT !.rate = "medium"] }

RaceSpecInit == SyncSpecInit /\ cfg \in RaceConfigs

RaceNext ==
    \/ StartCall
    \/ StopCall
    \/ TickCall
    \/ WorkerExitCall
    \/ BeginAttemptCall
    \/ FinishAttemptCall

RaceSpec == RaceSpecInit /\ [][RaceNext]_vars

(***************************************************************************)
(*                    Properties of the Git subscriber                     *)
(***************************************************************************)
MediumSteady == EqualFold(cfg.rate, "medium") /\ ticks.steady
SkippedTick == obs.kind = "skip" /\ ~obs.classified /\ ~obs.processCalled
FullResync == obs.fetched /\ obs.classified /\ obs.decided

C2_KustomizeFailureEmptiesList ==
    obs.decided /\ obs.kusErr # "" => obs.atDecision = <<>>

(***************************************************************************)
(* C3: an attempt that reaches the decision with an empty resource list    *)
(* and the successful flag false returns an error, does not call           *)
(* ProcessSubResources and leaves the recorded commit id as it was; and    *)
(* no failed attempt calls ProcessSubResources with an empty list.         *)
(***************************************************************************)
C3_EmptyListNeverApplied ==
    [][ /\ (obs'.decided /\ obs'.atDecision = <<>> /\ ~obs'.successfulAtDecision)
            => /\ obs'.isErr
               /\ ~obs'.processCalled
               /\ commitID' = commitID
               /\ status'.phase = "Failed"
        /\ (obs'.processCalled /\ ~obs'.successfulAtDecision)
            => obs'.atDecision # <<>> ]_vars

C3_QuitKeepsCommit ==
    /\ obs.decided /\ obs.atDecision = <<>> /\ ~obs.successfulAtDecision
    /\ obs.kind = "empty" /\ ~obs.processCalled
    /\ commitID # "" /\ commitID # obs.commit

(***************************************************************************)
(* C4: a Subscription of apps.open-cluster-management.io in the Kustomize  *)
(* output that carries cluster-admin = true is never appended to the       *)
(* resource list, so never reaches ProcessSubResources.                    *)
(***************************************************************************)
C4_AdminSubscriptionRejected ==
    \A i \in DOMAIN obs.atDecision : obs.atDecision[i].id # MSubAdmin.id

(***************************************************************************)
(*                  The hook processor (AnsibleHooks)                      *)
(*                                                                         *)
(* A subscription is its key with [gen, rv]: metadata.generation and       *)
(* metadata.resourceVersion.  cluster = [subs, chans, jobs] is what the    *)
(* API server holds: for every key whether the subscription exists and its *)
(* gen and rv, the type of the channel the subscription names ("" when     *)
(* there is no such channel), and the status string of every AnsibleJob    *)
(* that was submitted.  registry maps the registered keys to their Hooks   *)
(* [lastSub, preHooks, postHooks]; a slot is the sequence of its           *)
(* instances [tmpl, name].                                                 *)
(***************************************************************************)
Keys == {"ns/app1"}

ChannelTypeGit == "git"
ChannelTypeGitHub == "github"
JobCompleted == "successful"
PreHookType == "pre"
PostHookType == "post"

ChannelTypes == {"", "Git", "GitHub", "HelmRepo"}
JobStatuses == {"failed", "Successful"}

Remove(m, k) == [x \in DOMAIN m \ {k} |-> m[x]]

\* isRegistered (part_000:394-396)
isRegistered(reg, k) == k \in DOMAIN reg

\* isSubscriptionSpecChange (part_000:235-238)
isSubscriptionSpecChange(o, n) == o.gen # n.gen

\* isSubscriptionUpdate (part_000:410-419)
isSubscriptionUpdate(reg, k, sub) ==
    IF ~isRegistered(reg, k) THEN TRUE
    ELSE isSubscriptionSpecChange(reg[k].lastSub, sub)

\* suffixFromUUID (part_000:242-244): "-<generation>-<resourceVersion>"
suffixFromUUID(sub) == <<"-", sub.gen, "-", sub.rv>>

(***************************************************************************)
(* SuffixFunc (part_000:240): the functions a caller may hand to           *)
(* SetSuffixFunc, by name; "" is nil.  suffixFromGeneration is one a       *)
(* caller wrote: "-<generation>".  ApplySuffix(f, sub) is f(sub).          *)
(***************************************************************************)
SuffixFuncs == {"", "suffixFromUUID", "suffixFromGeneration"}

ApplySuffix(f, sub) ==
    IF f = "suffixFromGeneration" THEN <<"-", sub.gen>> ELSE suffixFromUUID(sub)

\* SetSuffixFunc (part_000:171-177): the suffix function that is set after the call
SetSuffixFunc(cur, f) == IF f = "" THEN cur ELSE f

\* the name of the instance made of a template: the template's name and the suffix
InstanceName(tmpl, suffix) == <<tmpl>> \o suffix

(***************************************************************************)
(* JobInstances.registryJobs: every template becomes an instance named     *)
(* with the suffix and is appended to the slot; fail: the override of a    *)
(* template (the placement lookup) failed, nothing is appended.            *)
(***************************************************************************)
registryJobs(slot, suffix, jobs, fail) ==
    IF fail THEN [slot |-> slot, err |-> "override"]
    ELSE [slot |-> slot \o [i \in 1..Len(jobs) |->
                               [tmpl |-> jobs[i],
                                name |-> InstanceName(jobs[i], suffix)]],
          err |-> ""]

\* registerHook (part_000:246-266), the registry and the error it returns
putSlot(reg, k, hookFlag, r) ==
    [reg |-> IF hookFlag = PreHookType
             THEN [reg EXCEPT ![k].preHooks = r.slot]
             ELSE [reg EXCEPT ![k].postHooks = r.slot],
     err |-> r.err]

registerHook(reg, k, sub, hookFlag, jobs, fail) ==
    putSlot(reg, k, hookFlag,
            registryJobs(IF hookFlag = PreHookType THEN reg[k].preHooks
                         ELSE reg[k].postHooks,
                         suffixFromUUID(sub), jobs, fail))

(***************************************************************************)
(* addHookToRegisitry (part_000:268-311) with what gitClt.GetHooks found:  *)
(* in.pre and in.post are the templates (none when GetHooks failed),       *)
(* in.regErr the slot whose registryJobs fails ("" for none).              *)
(***************************************************************************)
\* lines 293-296
recordLastSub(reg, k, sub, in) ==
    IF Len(in.pre) # 0 \/ Len(in.post) # 0
    THEN [reg EXCEPT ![k].lastSub = sub]
    ELSE reg

\* lines 298-302
registerPre(reg, k, sub, in) ==
    IF Len(in.pre) # 0
    THEN registerHook(reg, k, sub, PreHookType, in.pre, in.regErr = PreHookType)
    ELSE [reg |-> reg, err |-> ""]

\* lines 298-310: r is what the pre slot's step returned
registerPost(r, k, sub, in) ==
    IF r.err # "" THEN r
    ELSE IF Len(in.post) # 0
         THEN registerHook(r.reg, k, sub, PostHookType, in.post,
                           in.regErr = PostHookType)
         ELSE r

addHookToRegisitry(reg, k, sub, in) ==
    registerPost(registerPre(recordLastSub(reg, k, sub, in), k, sub, in), k, sub, in)

(***************************************************************************)
(* RegisterSubscription (part_000:184-233).  The inputs:                   *)
(*   in.apiErr, in.chanErr  a Get fails with an error other than NotFound  *)
(*   in.download            DownloadAnsibleHookResource succeeds           *)
(*   in.preErr, in.postErr  GetHooks fails (and finds no template)         *)
(*   in.pre, in.post        the templates GetHooks finds                   *)
(*   in.regErr              the slot whose registryJobs fails              *)
(* The result: the registry, the error returned ("" for nil), the branch   *)
(* taken, the generation read (0 when the subscription was not read), and  *)
(* whether the download was attempted and registerHook called.             *)
(***************************************************************************)
Sub(cl, k) == [gen |-> cl.subs[k].gen, rv |-> cl.subs[k].rv]
NoSub == [gen |-> 0, rv |-> 0]

Returned(reg, err, outcome, gen) ==
    [reg |-> reg, err |-> err, outcome |-> outcome, sawGen |-> gen,
     downloaded |-> FALSE, hooked |-> FALSE]

\* lines 218-224
ensureHooks(reg, k, sub) ==
    IF isRegistered(reg, k) THEN reg
    ELSE Put(reg, k, [lastSub |-> sub, preHooks |-> <<>>, postHooks |-> <<>>])

\* line 232, r is what addHookToRegisitry returned
Materialized(r, sub, in) ==
    [reg |-> r.reg, err |-> r.err,
     outcome |-> IF r.err # "" THEN "registerErr"
                 ELSE IF in.preErr \/ in.postErr THEN "discoveryErr"
                 ELSE "done",
     sawGen |-> sub.gen, downloaded |-> TRUE,
     hooked |-> Len(in.pre) # 0 \/ Len(in.post) # 0]

\* lines 218-232
downloadAndAdd(reg, k, sub, in) ==
    IF ~in.download
    THEN [Returned(reg, "", "downloadFail", sub.gen) EXCEPT !.downloaded = TRUE]
    ELSE Materialized(addHookToRegisitry(reg, k, sub, in), sub, in)

RegisterSubscription(reg, cl, k, in) ==
    IF in.apiErr THEN Returned(reg, "get subscription", "subGetErr", 0)
    ELSE IF ~cl.subs[k].exists THEN Returned(reg, "", "subNotFound", 0)
    ELSE IF in.chanErr
    THEN Returned(reg, "get channel", "chanGetErr", cl.subs[k].gen)
    ELSE IF cl.chans[k] = ""
    THEN Returned(reg, "channel not found", "chanNotFound", cl.subs[k].gen)
    ELSE IF /\ ~EqualFold(cl.chans[k], ChannelTypeGit)
            /\ ~EqualFold(cl.chans[k], ChannelTypeGitHub)
    THEN Returned(reg, "", "notGit", cl.subs[k].gen)
    ELSE IF ~isSubscriptionUpdate(reg, k, Sub(cl, k))
    THEN Returned(reg, "", "unchanged", cl.subs[k].gen)
    ELSE downloadAndAdd(ensureHooks(reg, k, Sub(cl, k)), k, Sub(cl, k), in)

\* DeregisterSubscription (part_000:179-182)
DeregisterSubscription(reg, k) == Remove(reg, k)

\* HasHooks (part_000:435-456)
HasHooks(reg, hookType, k) ==
    IF ~isRegistered(reg, k) THEN FALSE
    ELSE IF hookType = PreHookType /\ Len(reg[k].preHooks) = 0 THEN FALSE
    ELSE IF Len(reg[k].postHooks) = 0 THEN FALSE
    ELSE TRUE

\* the names of a slot's instances, in the slot's order
Names(slot) == [i \in 1..Len(slot) |-> slot[i].name]
NameSet(slot) == {slot[i].name : i \in 1..Len(slot)}

(***************************************************************************)
(* JobInstances.applyJobs: the slot's instances that the cluster does not  *)
(* hold yet are created (with no status).                                  *)
(***************************************************************************)
applyJobs(jobs, slot) ==
    [n \in DOMAIN jobs \cup NameSet(slot) |->
        IF n \in DOMAIN jobs THEN jobs[n] ELSE ""]

\* the comparison that minds the case
sameStatus(curStatus) == curStatus = JobCompleted

\* isJobRunSuccessful (part_000:477-482)
isJobRunSuccessful(curStatus) == EqualFold(curStatus, JobCompleted)

\* the status string the cluster reports of an instance
StatusOf(jobs, n) == IF n \in DOMAIN jobs THEN jobs[n] ELSE ""
Statuses(jobs, slot) == [i \in 1..Len(slot) |-> StatusOf(jobs, slot[i].name)]

(***************************************************************************)
(* JobInstances.isJobsCompleted: every instance of the slot is polled;     *)
(* complete iff isJobRunSuccessful of each.                                *)
(***************************************************************************)
isJobsCompleted(slot, jobs) ==
    [ok |-> \A i \in 1..Len(slot) : isJobRunSuccessful(StatusOf(jobs, slot[i].name)),
     err |-> "", panic |-> FALSE]

Complete == [ok |-> TRUE, err |-> "", panic |-> FALSE]
\* a nil pointer dereference: the call does not return
Panics == [ok |-> FALSE, err |-> "", panic |-> TRUE]

\* the query that takes an empty slot for a pending one
emptyIsPending(reg, jobs, k) ==
    IF ~isRegistered(reg, k) THEN Complete
    ELSE IF Len(reg[k].preHooks) = 0 THEN [Complete EXCEPT !.ok = FALSE]
    ELSE isJobsCompleted(reg[k].preHooks, jobs)

\* IsPreHooksCompleted (part_000:421-433)
IsPreHooksCompleted(reg, jobs, k) ==
    IF ~isRegistered(reg, k) THEN Complete
    ELSE IF Len(reg[k].preHooks) = 0 THEN Complete
    ELSE isJobsCompleted(reg[k].preHooks, jobs)

\* IsPostHooksCompleted (part_000:467-475): a.registry[subKey] is nil for a
\* key that is not in the map, and the read of its postHooks panics
IsPostHooksCompleted(reg, jobs, k) ==
    IF ~isRegistered(reg, k) THEN Panics
    ELSE IF Len(reg[k].postHooks) = 0 THEN Complete
    ELSE isJobsCompleted(reg[k].postHooks, jobs)

(***************************************************************************)
(* The hook fields of a subscription status (subv1.AnsibleJobsStatus) and  *)
(* the statuses a subscription handed to AppendStatusToSubscription may    *)
(* carry: no hook fields, or those a former registration left.             *)
(***************************************************************************)
NoHookStatus ==
    [lastPre |-> <<>>, preHistory |-> <<>>, lastPost |-> <<>>, postHistory |-> <<>>]

OldHookStatus ==
    [lastPre |-> <<"pre-a", "-", 0, "-", 0>>,
     preHistory |-> << <<"pre-a", "-", 0, "-", 0>> >>,
     lastPost |-> <<>>, postHistory |-> <<>>]

SubStatus(h) == [phase |-> "Subscribed", ansible |-> h]
NoStatus == [phase |-> "", ansible |-> NoHookStatus]
HookStatuses == {NoHookStatus, OldHookStatus}

(***************************************************************************)
(* JobInstances.outputAppliedJobs: the last entry of the slot and the      *)
(* slot's entries in order; nothing for a slot with no entry.              *)
(***************************************************************************)
outputAppliedJobs(slot) ==
    [lastApplied |-> IF Len(slot) = 0 THEN <<>> ELSE slot[Len(slot)].name,
     lastAppliedJobs |-> Names(slot)]

\* Hooks.ConstructStatus (part_000:90-106); both slots are never nil (220-221)
ConstructStatus(h) ==
    [lastPre |-> outputAppliedJobs(h.preHooks).lastApplied,
     preHistory |-> outputAppliedJobs(h.preHooks).lastAppliedJobs,
     lastPost |-> outputAppliedJobs(h.postHooks).lastApplied,
     postHistory |-> outputAppliedJobs(h.postHooks).lastAppliedJobs]

\* AppendStatusToSubscription (part_000:156-169) on a subscription k with status st
AppendStatusToSubscription(reg, k, st) ==
    IF ~isRegistered(reg, k) THEN st
    ELSE [st EXCEPT !.ansible = ConstructStatus(reg[k])]

(***************************************************************************)
(* The calls on the hook processor.  ret records the call: what the key's  *)
(* entry and the cluster were when it was made, and what it returned.      *)
(***************************************************************************)
NoRet ==
    [op |-> "", key |-> "", registered |-> FALSE, preLen |-> 0, postLen |-> 0,
     subExists |-> FALSE, chanType |-> "", apiErr |-> FALSE, chanErr |-> FALSE,
     ok |-> FALSE, err |-> "", panic |-> FALSE,
     submitted |-> <<>>, statuses |-> <<>>,
     sawGen |-> 0, prevGen |-> 0, prevCompleted |-> FALSE, prevFailed |-> FALSE,
     downloaded |-> FALSE, hooked |-> FALSE, changed |-> FALSE,
     stIn |-> NoStatus, stOut |-> NoStatus, f |-> "", sub |-> NoSub]

Call(op, k) ==
    [NoRet EXCEPT !.op = op, !.key = k,
                  !.registered = isRegistered(registry, k),
                  !.preLen = IF isRegistered(registry, k)
                             THEN Len(registry[k].preHooks) ELSE 0,
                  !.postLen = IF isRegistered(registry, k)
                              THEN Len(registry[k].postHooks) ELSE 0,
                  !.subExists = cluster.subs[k].exists,
                  !.chanType = cluster.chans[k]]

NoCall == [gen |-> 0, completed |-> FALSE, failed |-> FALSE]

\* the call ran to its end: nothing to do for this generation, or the download
\* and the discovery succeeded and what they found was registered
Completed(outcome) == outcome \in {"unchanged", "done"}

\* the download of the hook resources or the discovery of the templates failed
HookFetchFailed(outcome) == outcome \in {"downloadFail", "discoveryErr"}

PreChoices == { <<>>, <<"pre-a">> }
PostChoices == { <<>>, <<"post-a">> }

NoFault ==
    [apiErr |-> FALSE, chanErr |-> FALSE, download |-> TRUE, preErr |-> FALSE,
     postErr |-> FALSE, pre |-> <<>>, post |-> <<>>, regErr |-> ""]

RegisterInputs ==
    { [NoFault EXCEPT !.apiErr = TRUE], [NoFault EXCEPT !.chanErr = TRUE],
      [NoFault EXCEPT !.download = FALSE], [NoFault EXCEPT !.preErr = TRUE],
      [NoFault EXCEPT !.postErr = TRUE, !.pre = <<"pre-a">>] }
    \cup { [NoFault EXCEPT !.pre = p, !.post = q] :
             p \in PreChoices, q \in PostChoices }
    \cup { [NoFault EXCEPT !.pre = <<"pre-a">>, !.post = <<"post-a">>, !.regErr = e] :
             e \in {PreHookType, PostHookType} }

Running == ~ret.panic

Registered(k, in, r) ==
    /\ registry' = r.reg
    /\ ret' = [Call("RegisterSubscription", k) EXCEPT
                  !.apiErr = in.apiErr, !.chanErr = in.chanErr,
                  !.err = r.err, !.sawGen = r.sawGen,
                  !.prevGen = lastCall[k].gen,
                  !.prevCompleted = lastCall[k].completed,
                  !.prevFailed = lastCall[k].failed,
                  !.downloaded = r.downloaded, !.hooked = r.hooked,
                  !.changed = (r.reg # registry),
                  !.sub = IF r.sawGen = 0 THEN NoSub ELSE Sub(cluster, k)]
    /\ lastCall' = [lastCall EXCEPT ![k] = [gen |-> r.sawGen,
                                            completed |-> Completed(r.outcome),
                                            failed |-> HookFetchFailed(r.outcome)]]
    /\ UNCHANGED cluster

RegisterSubscriptionCall ==
    /\ Running
    /\ \E k \in Keys, in \in RegisterInputs :
          Registered(k, in, RegisterSubscription(registry, cluster, k, in))
    /\ UNCHANGED <<suffixFunc, syncVars, placeVars, inflight>>

DeregisterSubscriptionCall ==
    /\ Running
    /\ \E k \in Keys :
          /\ registry' = DeregisterSubscription(registry, k)
          /\ ret' = Call("DeregisterSubscription", k)
          /\ lastCall' = [lastCall EXCEPT ![k] = NoCall]
    /\ UNCHANGED <<cluster, suffixFunc, syncVars, placeVars, inflight>>

\* ApplyPreHooks (part_000:398-406) and ApplyPostHooks (part_000:458-465)
Applied(op, k, has, slot) ==
    /\ has => Cardinality(DOMAIN cluster.jobs \cup NameSet(slot)) <= MaxJobs
    /\ cluster' = IF has
                  THEN [cluster EXCEPT !.jobs = applyJobs(cluster.jobs, slot)]
                  ELSE cluster
    /\ ret' = [Call(op, k) EXCEPT !.submitted = IF has THEN Names(slot) ELSE <<>>]
    /\ UNCHANGED <<registry, lastCall>>

ApplyPreHooksCall ==
    /\ Running
    /\ \E k \in Keys :
          Applied("ApplyPreHooks", k, HasHooks(registry, PreHookType, k),
                  IF isRegistered(registry, k) THEN registry[k].preHooks ELSE <<>>)
    /\ UNCHANGED <<suffixFunc, syncVars, placeVars, inflight>>

ApplyPostHooksCall ==
    /\ Running
    /\ \E k \in Keys :
          Applied("ApplyPostHooks", k, HasHooks(registry, PostHookType, k),
                  IF isRegistered(registry, k) THEN registry[k].postHooks ELSE <<>>)
    /\ UNCHANGED <<suffixFunc, syncVars, placeVars, inflight>>

Queried(op, k, slot, r) ==
    /\ ret' = [Call(op, k) EXCEPT !.ok = r.ok, !.err = r.err, !.panic = r.panic,
                                  !.statuses = Statuses(cluster.jobs, slot)]
    /\ UNCHANGED <<registry, cluster, lastCall>>

IsPreHooksCompletedCall ==
    /\ Running
    /\ \E k \in Keys :
          Queried("IsPreHooksCompleted", k,
                  IF isRegistered(registry, k) THEN registry[k].preHooks ELSE <<>>,
                  IsPreHooksCompleted(registry, cluster.jobs, k))
    /\ UNCHANGED <<suffixFunc, syncVars, placeVars, inflight>>

IsPostHooksCompletedCall ==
    /\ Running
    /\ \E k \in Keys :
          Queried("IsPostHooksCompleted", k,
                  IF isRegistered(registry, k) THEN registry[k].postHooks ELSE <<>>,
                  IsPostHooksCompleted(registry, cluster.jobs, k))
    /\ UNCHANGED <<suffixFunc, syncVars, placeVars, inflight>>

\* SetSuffixFunc (part_000:171-177) with a function f, or with nil
SetSuffixFuncCall ==
    /\ Running
    /\ \E f \in SuffixFuncs :
          /\ suffixFunc' = SetSuffixFunc(suffixFunc, f)
          /\ ret' = [NoRet EXCEPT !.op = "SetSuffixFunc", !.f = f]
    /\ UNCHANGED <<registry, cluster, lastCall, syncVars, placeVars, inflight>>

\* AppendStatusToSubscription on a subscription of key k whose hook fields are h
AppendStatusToSubscriptionCall ==
    /\ Running
    /\ \E k \in Keys, h \in HookStatuses :
          ret' = [Call("AppendStatusToSubscription", k) EXCEPT
                     !.stIn = SubStatus(h),
                     !.stOut = AppendStatusToSubscription(registry, k, SubStatus(h))]
    /\ UNCHANGED <<registry, cluster, lastCall>>
    /\ UNCHANGED <<suffixFunc, syncVars, placeVars, inflight>>

(***************************************************************************)
(* What happens in the cluster besides: a subscription is edited (a new    *)
(* generation and resourceVersion) or deleted, a channel is deleted, an    *)
(* AnsibleJob that ran reports its final status.                           *)
(***************************************************************************)
EditSubscription ==
    /\ Running
    /\ \E k \in Keys :
          /\ cluster.subs[k].exists
          /\ cluster.subs[k].gen < MaxGeneration
          /\ cluster' = [cluster EXCEPT !.subs[k].gen = @ + 1, !.subs[k].rv = @ + 1]
    /\ UNCHANGED <<registry, ret, lastCall, suffixFunc, syncVars, placeVars, inflight>>

DeleteSubscription ==
    /\ Running
    /\ \E k \in Keys :
          /\ cluster.subs[k].exists
          /\ cluster' = [cluster EXCEPT !.subs[k].exists = FALSE]
    /\ UNCHANGED <<registry, ret, lastCall, suffixFunc, syncVars, placeVars, inflight>>

DeleteChannel ==
    /\ Running
    /\ \E k \in Keys :
          /\ cluster.chans[k] # ""
          /\ cluster' = [cluster EXCEPT !.chans[k] = ""]
    /\ UNCHANGED <<registry, ret, lastCall, suffixFunc, syncVars, placeVars, inflight>>

JobReports ==
    /\ Running
    /\ \E n \in DOMAIN cluster.jobs, st \in JobStatuses :
          /\ cluster.jobs[n] = ""
          /\ cluster' = [cluster EXCEPT !.jobs[n] = st]
    /\ UNCHANGED <<registry, ret, lastCall, suffixFunc, syncVars, placeVars, inflight>>

\* NewAnsibleHooks (part_000:119-132): an empty registry
HookInit ==
    /\ registry = EmptyMap
    /\ cluster \in [subs : [Keys -> [exists : BOOLEAN, gen : {1}, rv : {1}]],
                    chans : [Keys -> ChannelTypes],
                    jobs : {EmptyMap}]
    /\ ret = NoRet
    /\ lastCall = [k \in Keys |-> NoCall]
    /\ suffixFunc = "suffixFromUUID"

\* the subscriber item is not started
SyncIdle == SyncInit /\ cfg = BaseCfg

HookSpecInit == HookInit /\ SyncIdle /\ PlaceIdle

HookNext ==
    \/ RegisterSubscriptionCall
    \/ DeregisterSubscriptionCall
    \/ ApplyPreHooksCall
    \/ ApplyPostHooksCall
    \/ IsPreHooksCompletedCall
    \/ IsPostHooksCompletedCall
    \/ AppendStatusToSubscriptionCall
    \/ EditSubscription
    \/ DeleteSubscription
    \/ DeleteChannel
    \/ JobReports

HookSpec == HookSpecInit /\ [][HookNext]_vars

(***************************************************************************)
(* The registrations with the suffix function being set.  a.suffixFunc is  *)
(* written by SetSuffixFunc only and read by no method of AnsibleHooks, so *)
(* the calls of HookSpec do not depend on it; SuffixSpec runs the calls    *)
(* that set it and those that name instances.                              *)
(***************************************************************************)
SuffixNext ==
    \/ SetSuffixFuncCall
    \/ RegisterSubscriptionCall
    \/ DeregisterSubscriptionCall
    \/ EditSubscription

SuffixSpec == HookSpecInit /\ [][SuffixNext]_vars

(***************************************************************************)
(*                   Properties of the hook processor                      *)
(***************************************************************************)
IsQuery == ret.op \in {"IsPreHooksCompleted", "IsPostHooksCompleted"}
Returns(ok) == ret.ok = ok /\ ret.err = "" /\ ~ret.panic
AllSuccessful ==
    \A i \in DOMAIN ret.statuses : Fold(ret.statuses[i]) = "successful"

(***************************************************************************)
(* C5: for a key that is not in the registry, IsPreHooksCompleted and      *)
(* IsPostHooksCompleted both return (true, nil) and do not fail.           *)
(***************************************************************************)
C5_UnregisteredIsComplete == IsQuery /\ ~ret.registered => Returns(TRUE)

(***************************************************************************)
(* C6: ApplyPreHooks submits the instances of the pre slot whenever the    *)
(* key is registered and the pre slot is not empty, whatever the post slot *)
(* holds, ApplyPostHooks likewise for the post slot; each submits nothing  *)
(* exactly when the key is unregistered or its own slot is empty.          *)
(***************************************************************************)
C6_ApplySubmitsOwnSlot ==
    /\ ret.op = "ApplyPreHooks" =>
          (Len(ret.submitted) = IF ret.registered THEN ret.preLen ELSE 0)
    /\ ret.op = "ApplyPostHooks" =>
          (Len(ret.submitted) = IF ret.registered THEN ret.postLen ELSE 0)

(***************************************************************************)
(* C7: for a registered key whose pre (post) slot is empty,                *)
(* IsPreHooksCompleted (IsPostHooksCompleted) returns (true, nil),         *)
(* whatever ApplyPreHooks and ApplyPostHooks calls were made before.       *)
(***************************************************************************)
C7_EmptySlotIsComplete ==
    /\ (ret.op = "IsPreHooksCompleted" /\ ret.registered /\ ret.preLen = 0)
          => Returns(TRUE)
    /\ (ret.op = "IsPostHooksCompleted" /\ ret.registered /\ ret.postLen = 0)
          => Returns(TRUE)

C7_EmptyPreSlotAfterApply ==
    /\ ret.op = "IsPreHooksCompleted" /\ ret.registered /\ ret.preLen = 0
    /\ ret.postLen > 0
    /\ DOMAIN cluster.jobs # {}
    /\ Returns(TRUE)

C9_NotFoundIsNoOp ==
    /\ ret.op = "RegisterSubscription" /\ ~ret.apiErr /\ ~ret.chanErr
    /\ \/ ~ret.subExists
       \/ ret.chanType = ""
       \/ Fold(ret.chanType) \notin {"git", "github"}
    => ret.err = "" /\ ~ret.changed

(***************************************************************************)
(* C10: a RegisterSubscription call that reads the generation the          *)
(* preceding call on the key read (a call that ran to its end, whether or  *)
(* not it found hook templates) downloads nothing, registers no hook and   *)
(* leaves the registry as it was.                                          *)
(***************************************************************************)
C10_SameGenerationIsNoOp ==
    /\ ret.op = "RegisterSubscription"
    /\ ret.sawGen # 0 /\ ret.prevGen = ret.sawGen /\ ret.prevCompleted
    => ~ret.downloaded /\ ~ret.hooked /\ ~ret.changed

\* the generation in an instance's name
GenOf(inst) == inst.name[3]

(***************************************************************************)
(* C11: after a RegisterSubscription that went through (download and       *)
(* discovery done, nil returned) on a key that was registered under        *)
(* another generation, the two slots hold only instances of the new        *)
(* generation: no entry of an earlier generation remains, so a slot the    *)
(* new revision has no template for is empty.                              *)
(***************************************************************************)
C11_SlotsReplacedOnNewGeneration ==
    /\ ret.op = "RegisterSubscription" /\ ret.registered /\ ret.downloaded
    /\ ret.err = "" /\ lastCall[ret.key].completed
    => /\ \A i \in DOMAIN registry[ret.key].preHooks :
             GenOf(registry[ret.key].preHooks[i]) = ret.sawGen
       /\ \A i \in DOMAIN registry[ret.key].postHooks :
             GenOf(registry[ret.key].postHooks[i]) = ret.sawGen


\* the item holds a channel that nobody closed: its cycle is in progress
CycleRunning == stopch # 0 /\ closed[stopch] = 0

\* the variables of the item a call of Start(false) must leave alone
itemState == <<cfg, stopch, closed, workers, loop, count, commitID, successful,
               resources, sorted, status, obs>>

(***************************************************************************)
(* C12: Start(false) on an item whose cycle is in progress starts no       *)
(* worker and changes nothing (count, stopch and the rest are the same);   *)
(* Start(true) on such an item closes the channel of the previous cycle,   *)
(* once, makes a new open channel, sets count to 0 and starts exactly one  *)
(* new cycle: one more worker on a periodic rate, one synchronous run with *)
(* no worker on the rate "off".                                            *)
(***************************************************************************)
C12_StartIdempotentUnlessRestart ==
    [][ event'.op = "Start" /\ CycleRunning
        => IF ~event'.restart
           THEN UNCHANGED itemState
           ELSE /\ closed'[stopch] = 1
                /\ stopch' = Len(closed) + 1
                /\ Len(closed') = Len(closed) + 1
                /\ closed'[stopch'] = 0
                /\ count' = 0
                /\ IF EqualFold(cfg.rate, "off")
                   THEN workers' = workers /\ event'.attempt
                   ELSE /\ workers' = workers \cup {stopch'}
                        /\ stopch' \notin workers
                        /\ ~event'.attempt ]_vars

\* a restart was made on a running cycle: the old channel closed once, a new worker
C12_Restarted ==
    /\ event.op = "Start" /\ event.restart
    /\ Len(closed) = 2 /\ closed[1] = 1 /\ closed[2] = 0
    /\ stopch = 2 /\ workers = {1, 2} /\ count = 0

\* Start(false) was called on a started item
C12_StartedTwice ==
    event.op = "Start" /\ ~event.restart /\ stopch = 1 /\ workers = {1} /\ count > 0


(***************************************************************************)
(* C13: in a sequence of Start(false), Start(true) and Stop that begins    *)
(* with a Start and has no two Stops in a row, no channel is closed more   *)
(* than once.  A Stop closes a closed channel exactly when the call before *)
(* it was a Stop, so the claim is: a second close is never made by Start.  *)
(***************************************************************************)
C13_NoDoubleCancel ==
    \A ch \in DOMAIN closed : closed[ch] > 1 => event.op = "Stop"


(***************************************************************************)
(* C14: whatever the rate, "off" included, a step that meets a time window *)
(* excluding the current time, or the pause label, makes no attempt:       *)
(* nothing is fetched, nothing is applied and the status is not written.   *)
(***************************************************************************)
C14_GatesBeforeWork ==
    [][ event'.blocked \/ event'.paused
        => /\ ~event'.attempt
           /\ ~obs'.fetched /\ ~obs'.processCalled
           /\ status' = status ]_vars


\* the rate is "off" in any case of its letters
RateOff == Fold(cfg.rate) = "off"

\* a Start that neither returns early nor closes a closed channel
StartsCycle == event'.op = "Start" /\ (stopch = 0 \/ (event'.restart /\ CycleRunning))

(***************************************************************************)
(* C15: with the rate "off", in any case of its letters, no worker is ever *)
(* started; a Start that starts a cycle makes the first attempt of one run *)
(* of the retry loop itself, and the only other attempts are the later     *)
(* passes of that loop, run by the caller of Start before Start returns    *)
(* and never more than cfg.retries of them; so after the run no attempt    *)
(* is made until a Start with restart set.                                 *)
(***************************************************************************)
C15_OffRunsOnceAtStart ==
    [][ RateOff
        => /\ workers' = {}
           /\ StartsCycle => event'.attempt /\ event'.n = 0
           /\ event'.attempt
              => \/ StartsCycle
                 \/ /\ event'.op = "Retry" /\ event'.w = 0
                    /\ loop[0].active /\ event'.n = loop[0].n
                    /\ event'.n <= cfg.retries ]_vars

\* a Start under the rate "Off" ran its loop to the last retry, and no worker exists
C15_OffRunRetried ==
    /\ cfg.rate = "Off" /\ event.op = "Retry" /\ event.w = 0
    /\ event.n = cfg.retries /\ ~loop[0].active /\ workers = {} /\ stopch = 1


(***************************************************************************)
(* C16: on a periodic rate, a tick after the first one that follows Start  *)
(* makes exactly one attempt: a worker never runs a later pass of the      *)
(* retry loop inside such a tick.                                          *)
(***************************************************************************)
C16_NoRetryInSteadyTick ==
    ~RateOff /\ event.op = "Retry" /\ event.w = stopch => event.tick < 2


\* the step is an attempt after which the loop sleeps and attempts again
RetriedAttempt == event'.attempt /\ loop'[event'.w].active

(***************************************************************************)
(* C17: within one run of the retry loop the status is not written after   *)
(* a failed attempt that is going to be retried (Failed is written only    *)
(* once the retries are exhausted), and an attempt that writes Subscribed  *)
(* with an empty message returned no error.                                *)
(***************************************************************************)
C17_FailedOnlyWhenExhausted ==
    [][ /\ RetriedAttempt => status' = status
        /\ event'.attempt /\ status'.phase = "Subscribed"
           => ~obs'.isErr /\ status'.msg = <<>> ]_vars


(***************************************************************************)
(* C18: one run of doSubscriptionWithRetries makes its attempts 0, 1, ...  *)
(* in turn and never one beyond cfg.retries (at least 1, at most           *)
(* cfg.retries + 1 attempts); another attempt follows an attempt only if   *)
(* that attempt returned an error, and none follows an attempt that        *)
(* returned no error.                                                      *)
(***************************************************************************)
C18_LoopBounded ==
    event.attempt
    => /\ event.n <= cfg.retries
       /\ event.op \in {"Start", "Tick"} => event.n = 0
       /\ event.op = "Retry" => event.n > 0
       /\ loop[event.w].active
          => obs.isErr /\ loop[event.w].n = event.n + 1
       /\ ~obs.isErr => ~loop[event.w].active

\* a run used all of its attempts, each of which returned an error
C18_RetriesExhausted ==
    /\ event.attempt /\ event.op = "Retry" /\ cfg.retries = MaxRetries
    /\ event.n = cfg.retries /\ obs.isErr /\ ~loop[event.w].active


\* the item as the attempt of the step finds it: Start has reset the counter
ItemAtAttempt == IF event'.op = "Start" THEN [Item EXCEPT !.count = 0] ELSE Item

\* what the attempt could do to that item were the webhook not enabled
NormalOutcomes ==
    { doSubscription([cfg EXCEPT !.webhook = FALSE], ItemAtAttempt, in) :
          in \in Inputs(cfg.repo) }

(***************************************************************************)
(* C19: an attempt of a webhook-enabled item that begins with the          *)
(* successful flag true fetches nothing, classifies nothing, applies       *)
(* nothing, returns no error and leaves commitID, successful and resources *)
(* as they were; one that begins with the flag false does what an attempt  *)
(* of the same item without the webhook can do.                            *)
(***************************************************************************)
C19_WebhookSkipsWhenSuccessful ==
    [][ event'.attempt /\ cfg.webhook
        => IF successful
           THEN /\ ~obs'.fetched /\ ~obs'.classified /\ ~obs'.processCalled
                /\ ~obs'.isErr
                /\ commitID' = commitID /\ successful' /\ resources' = resources
           ELSE [g |-> Item', o |-> obs'] \in NormalOutcomes ]_vars

\* a webhook-enabled item skipped an attempt after a deploy
C19_WebhookSkipped ==
    /\ cfg.webhook /\ event.attempt /\ event.op = "Tick" /\ event.tick = 2
    /\ obs.kind = "webhook" /\ successful /\ commitID # ""


(***************************************************************************)
(* A tick of the medium rate that begins with a known commit, the          *)
(* successful flag true and count at 2, and meets the repository at the    *)
(* commit the item holds.                                                  *)
(***************************************************************************)
UnchangedCommitTick ==
    /\ Fold(cfg.rate) = "medium"
    /\ event'.attempt /\ event'.op = "Tick"
    /\ commitID # "" /\ successful /\ count = 2
    /\ obs'.commit = commitID

C21_AtMostFiveSkips ==
    Fold(cfg.rate) = "medium" => event.skips < ForceResyncCount


(***************************************************************************)
(* C22: at the end of every attempt, whether it succeeded, failed or was   *)
(* skipped, ghsi.resources, the three file buckets, chartDirs,             *)
(* kustomizeDirs and the Helm index are all empty.                         *)
(***************************************************************************)
C22_BucketsEmptyAfterAttempt ==
    event.attempt
    => /\ resources = <<>>
       /\ sorted.crds = <<>> /\ sorted.rbac = <<>> /\ sorted.other = <<>>
       /\ sorted.chartDirs = {} /\ sorted.kustomizeDirs = {}
       /\ sorted.index = {}


\* the tree the last attempt classified
TreeAtAttempt == TreeOf(cfg.repo, obs.commit)

(***************************************************************************)
(* What each bucket of a tree contributes when it is processed on its own: *)
(* one entry per manifest subscribeResource accepts, in the bucket's       *)
(* order; ko and ho are the orders of the kustomize roots and the charts.  *)
(***************************************************************************)
BucketByBucket(c, tree, ko, ho) ==
    subscribeResources(c, <<>>, tree.crds).res
    \o subscribeResources(c, <<>>, tree.rbac).res
    \o subscribeResources(c, <<>>, tree.other).res
    \o subscribeKustomizations(c, <<>>, ko).res
    \o subscribeHelmCharts(c, <<>>, ho).res

(***************************************************************************)
(* C23: the list handed to ProcessSubResources is the accepted entries of  *)
(* the CRD/Namespace bucket, then those of the RBAC bucket, then those of  *)
(* the Other bucket, then the Kustomize output, then the Helm releases.    *)
(***************************************************************************)
C23_ListOrderedByBucket ==
    obs.processCalled
    => \E ko \in Orders(TreeAtAttempt.kdirs), ho \in Orders(TreeAtAttempt.charts) :
          obs.atDecision = BucketByBucket(cfg, TreeAtAttempt, ko, ho)


(***************************************************************************)
(* C24: after an attempt in which a bucket step returned an error (errMsg  *)
(* is not empty at the decision) the status written is Failed and its      *)
(* message holds the error of every bucket that failed.                    *)
(***************************************************************************)
C24_BucketErrorsReported ==
    event.attempt /\ obs.decided /\ obs.errMsg # <<>>
    => /\ status.phase = "Failed"
       /\ \A i \in DOMAIN obs.errMsg :
             \E j \in DOMAIN status.msg : status.msg[j] = obs.errMsg[i]


(***************************************************************************)
(* C25: when the subscription names a package, no manifest of another name *)
(* is in the resource list, with or without a package filter (the Helm     *)
(* releases are not made of manifests).                                    *)
(***************************************************************************)
C25_PackageNameFilters ==
    obs.decided /\ cfg.pkg # ""
    => \A i \in DOMAIN obs.atDecision :
          obs.atDecision[i].kind # helmGvkKind => obs.atDecision[i].name = cfg.pkg


\* the manifests of the catalogue, and the one a resource was made of
AllManifests ==
    {MNamespace, MCrd, MRole, MDeployA, MDeployB, MDeployOv, MSubChild,
     MSubAdmin, MLoose, MBad}

ManifestOf(rsc) == CHOOSE m \in AllManifests : m.id = rsc.id

\* the resource was made of a manifest (a HelmRelease is made of a chart)
OfManifest(rsc) == rsc.kind # helmGvkKind

\* the namespace the claim gives the resource made of the manifest m
PolicyNamespace(m) ==
    IF cfg.clusterAdmin /\ m.ns # "" /\ ~cfg.nsScoped THEN m.ns ELSE SubNamespace

KeepsOwnNamespace(m) == cfg.clusterAdmin /\ m.ns # "" /\ ~cfg.nsScoped

(***************************************************************************)
(* C26: every namespaced resource of the list has its manifest's declared  *)
(* namespace exactly when the item is cluster-admin, the declared          *)
(* namespace is not empty and currentNamespaceScoped is not set, and has   *)
(* the subscription's namespace in every other case; so without            *)
(* cluster-admin every namespaced resource is in the subscription's        *)
(* namespace.                                                              *)
(***************************************************************************)
C26_NamespacePolicy ==
    obs.decided
    => \A i \in DOMAIN obs.atDecision :
          OfManifest(obs.atDecision[i]) /\ ManifestOf(obs.atDecision[i]).namespaced
          => /\ obs.atDecision[i].ns = PolicyNamespace(ManifestOf(obs.atDecision[i]))
             /\ (obs.atDecision[i].ns = ManifestOf(obs.atDecision[i]).ns
                 <=> KeepsOwnNamespace(ManifestOf(obs.atDecision[i])))
             /\ ~cfg.clusterAdmin => obs.atDecision[i].ns = SubNamespace

\* a cluster-admin item kept a declared namespace, and moved an undeclared one
C26_AdminKeepsDeclared ==
    /\ obs.decided /\ cfg.clusterAdmin /\ ~cfg.nsScoped
    /\ \E i \in DOMAIN obs.atDecision :
          obs.atDecision[i].id = "depA" /\ obs.atDecision[i].ns = "other-ns"
    /\ \E i \in DOMAIN obs.atDecision :
          obs.atDecision[i].id = "depB" /\ obs.atDecision[i].ns = SubNamespace


\* the reconcile option the claim gives a resource made of the manifest m
PolicyReconcileOption(m) ==
    IF Get(m.annos, AnnotationResourceReconcileOption) # ""
    THEN Get(m.annos, AnnotationResourceReconcileOption)
    ELSE IF Get(cfg.subAnnos, AnnotationResourceReconcileOption) # ""
         THEN Get(cfg.subAnnos, AnnotationResourceReconcileOption)
         ELSE MergeReconcile

(***************************************************************************)
(* C27: every resource of the list carries a reconcile-option annotation   *)
(* that is not empty: its manifest's own, else the subscription's, else    *)
(* "merge", whether the subscription has annotations or none.              *)
(***************************************************************************)
C27_ReconcileOptionSet ==
    obs.decided
    => \A i \in DOMAIN obs.atDecision :
          OfManifest(obs.atDecision[i])
          => Get(obs.atDecision[i].annos, AnnotationResourceReconcileOption)
                = PolicyReconcileOption(ManifestOf(obs.atDecision[i]))


(***************************************************************************)
(* C28: every resource of kind Subscription in the list, from a file or    *)
(* from a Kustomize build, carries the user-identity and user-group        *)
(* annotations with the item's userID and userGroup.                       *)
(***************************************************************************)
C28_IdentityOnSubscriptions ==
    obs.decided
    => \A i \in DOMAIN obs.atDecision :
          obs.atDecision[i].kind = "Subscription"
          => /\ Get(obs.atDecision[i].annos, AnnotationUserIdentity) = cfg.userID
             /\ Get(obs.atDecision[i].annos, AnnotationUserGroup) = cfg.userGroup


(***************************************************************************)
(* C29: two full attempts in a row that fetch the same commit of the same  *)
(* repository for the same subscription build the same resource list,      *)
(* entry for entry and in the same order.                                  *)
(***************************************************************************)
C29_SameStateSameList ==
    [][ /\ obs.decided /\ event'.attempt /\ obs'.decided
        /\ obs'.commit = obs.commit
        => obs'.atDecision = obs.atDecision ]_vars


\* the key of the call has no hooks: it is not registered, or both slots are empty
NoHooks == ~ret.registered \/ (ret.preLen = 0 /\ ret.postLen = 0)

(***************************************************************************)
(* C30: AppendStatusToSubscription returns the status of the subscription  *)
(* it was given when the subscription has no hooks (its key is not         *)
(* registered, or is registered with both slots empty), and otherwise that *)
(* status with only the hook fields replaced by those of the registry; it  *)
(* changes neither the subscription nor the registry.                      *)
(***************************************************************************)
C30_NoHooksStatusUnchanged ==
    ret.op = "AppendStatusToSubscription"
    => IF NoHooks
       THEN ret.stOut = ret.stIn
       ELSE /\ ret.stOut.phase = ret.stIn.phase
            /\ ret.stOut.ansible = ConstructStatus(registry[ret.key])


\* the instances the last RegisterSubscription appended to a slot that had n entries
Appended(slot, n) == { slot[i] : i \in { j \in DOMAIN slot : j > n } }

\* every instance is named with the suffix function that is set
NamedWithSuffixFunc(insts, sub) ==
    \A inst \in insts : inst.name = InstanceName(inst.tmpl, ApplySuffix(suffixFunc, sub))

\* the instances the last RegisterSubscription appended carry the suffix of the
\* function that is set
RegisteredWithSuffixFunc ==
    ret.op = "RegisterSubscription" /\ ret.hooked /\ ret.changed
    => /\ NamedWithSuffixFunc(Appended(registry[ret.key].preHooks, ret.preLen),
                              ret.sub)
       /\ NamedWithSuffixFunc(Appended(registry[ret.key].postHooks, ret.postLen),
                              ret.sub)

(***************************************************************************)
(* C31: after SetSuffixFunc(f) with a non-nil f the suffix function in use  *)
(* is f and SetSuffixFunc(nil) leaves it as it was; the instances every    *)
(* later RegisterSubscription appends are named with the function in use.  *)
(***************************************************************************)
C31_NamesUseSuffixFunc ==
    [][/\ ret'.op = "SetSuffixFunc"
          => suffixFunc' = IF ret'.f = "" THEN suffixFunc ELSE ret'.f
       /\ RegisteredWithSuffixFunc']_vars


(***************************************************************************)
(*        The placement rule controller and the managed clusters           *)
(*                                                                         *)
(* managed holds the ManagedCluster objects by name: whether the API       *)
(* server holds the object, whether its DeletionTimestamp is set, its      *)
(* labels and its Status.Conditions (a sequence of [type, status]).        *)
(* prule is the PlacementRule of the test: one that selects all clusters,  *)
(* with its Spec.SchedulerName and the cluster names of its                *)
(* Status.Decisions.  requests: a reconcile request for the rule is in the *)
(* controller's work queue.                                                *)
(***************************************************************************)
ClusterNames == {"clusteralpha", "clusterbeta"}

ConditionLists ==
    { <<>>,
      << [type |-> "ManagedClusterConditionAvailable", status |-> "True"] >>,
      << [type |-> "ManagedClusterConditionAvailable", status |-> "False"] >> }

LabelSets == {"key1=value1", "key1=value2"}

NoCluster == [exists |-> FALSE, deleting |-> FALSE, labels |-> "", conds |-> <<>>]

ClusterObjects ==
    [exists : {TRUE}, deleting : BOOLEAN, labels : LabelSets, conds : ConditionLists]

\* the object the test creates (placementrule_controller_test.go:456-457, 486-487)
NewCluster == [exists |-> TRUE, deleting |-> FALSE, labels |-> "key1=value1", conds |-> <<>>]

\* cluster.go:63-66: the map from condition type to status of the old object
RECURSIVE condMap(_)
condMap(conds) ==
    IF conds = <<>> THEN EmptyMap
    ELSE Put(condMap(SubSeq(conds, 1, Len(conds) - 1)),
             conds[Len(conds)].type, conds[Len(conds)].status)

\* cluster.go:67-77: the loop over the new object's conditions; TRUE for a
\* condition the map lacks or holds with another status, else the condition is
\* deleted from the map, and what is left in the map at the end counts as a change
RECURSIVE condsChanged(_, _)
condsChanged(oldcondMap, conds) ==
    IF conds = <<>> THEN DOMAIN oldcondMap # {}
    ELSE IF conds[1].type \notin DOMAIN oldcondMap THEN TRUE
    ELSE IF oldcondMap[conds[1].type] # conds[1].status THEN TRUE
    ELSE condsChanged(Remove(oldcondMap, conds[1].type), Tail(conds))

\* the predicate that takes the creation of a cluster for a heartbeat
dropCreate(obj) == FALSE

\* ClusterPredicateFunc.CreateFunc (cluster.go:40-47)
CreateFunc(obj) == TRUE

\* ClusterPredicateFunc.UpdateFunc (cluster.go:49-80)
UpdateFunc(oldcl, newcl) ==
    IF oldcl.deleting # newcl.deleting THEN TRUE
    ELSE IF oldcl.labels # newcl.labels THEN TRUE
    ELSE condsChanged(condMap(oldcl.conds), newcl.conds)

\* ClusterPredicateFunc sets no DeleteFunc (cluster.go:39-81): predicate.TypedFuncs
\* lets the event pass
DeleteFunc(obj) == TRUE

\* the scheduler names of a rule this controller reconciles
SchedulerNames == {"", "test-scheduler"}
Handled(rule) == rule.scheduler = ""

NoRule == [exists |-> FALSE, scheduler |-> "", decisions |-> {}]

\* the clusters the API server holds
Existing == { c \in ClusterNames : managed[c].exists }

\* a cluster event that passed the predicate queues a request for the rule
Queue(passed) == requests \/ (passed /\ prule.exists)

PEvent(op, passed) == [op |-> op, passed |-> passed]

\* c.Create of a ManagedCluster (placementrule_controller_test.go:456-459, 486-489)
CreateCluster(c) ==
    /\ ~managed[c].exists
    /\ managed' = [managed EXCEPT ![c] = NewCluster]
    /\ requests' = Queue(CreateFunc(NewCluster))
    /\ pevent' = PEvent("CreateCluster", CreateFunc(NewCluster))
    /\ UNCHANGED prule

\* an update of a ManagedCluster: a heartbeat (new = the object as it is, in the
\* fields the predicate reads) or a change of the labels, the conditions or the
\* DeletionTimestamp
UpdateCluster(c, new) ==
    /\ managed[c].exists
    /\ managed[c].deleting => new.deleting
    /\ managed' = [managed EXCEPT ![c] = new]
    /\ requests' = Queue(UpdateFunc(managed[c], new))
    /\ pevent' = PEvent("UpdateCluster", UpdateFunc(managed[c], new))
    /\ UNCHANGED prule

\* c.Delete of a ManagedCluster (placementrule_controller_test.go:461, 491)
DeleteCluster(c) ==
    /\ managed[c].exists
    /\ managed' = [managed EXCEPT ![c] = NoCluster]
    /\ requests' = Queue(DeleteFunc(managed[c]))
    /\ pevent' = PEvent("DeleteCluster", DeleteFunc(managed[c]))
    /\ UNCHANGED prule

\* c.Create of the PlacementRule (placementrule_controller_test.go:463-472)
CreateRule ==
    /\ ~prule.exists
    /\ prule' = [NoRule EXCEPT !.exists = TRUE]
    /\ requests' = TRUE
    /\ pevent' = PEvent("CreateRule", TRUE)
    /\ UNCHANGED managed

\* c.Update with another Spec.SchedulerName (placementrule_controller_test.go:504-506)
UpdateRuleSpec(sch) ==
    /\ prule.exists /\ prule.scheduler # sch
    /\ prule' = [prule EXCEPT !.scheduler = sch]
    /\ requests' = TRUE
    /\ pevent' = PEvent("UpdateRuleSpec", TRUE)
    /\ UNCHANGED managed

\* c.Status().Update with fewer decisions (placementrule_controller_test.go:508-513);
\* whether the rule's own predicate lets a status update pass is left open
UpdateRuleStatus(decs, passed) ==
    /\ prule.exists
    /\ decs # prule.decisions /\ decs \subseteq prule.decisions
    /\ prule' = [prule EXCEPT !.decisions = decs]
    /\ requests' = (requests \/ passed)
    /\ pevent' = PEvent("UpdateRuleStatus", passed)
    /\ UNCHANGED managed

\* the reconciler takes the request: a rule of its scheduler that selects all
\* clusters gets one decision for every managed cluster
Reconcile ==
    /\ requests
    /\ requests' = FALSE
    /\ prule' = IF prule.exists /\ Handled(prule)
                THEN [prule EXCEPT !.decisions = Existing]
                ELSE prule
    /\ pevent' = PEvent("Reconcile", TRUE)
    /\ UNCHANGED managed

PlaceInit ==
    /\ managed = [c \in ClusterNames |-> NoCluster]
    /\ prule = NoRule
    /\ requests = FALSE
    /\ pevent = PEvent("", FALSE)

CreateClusterCall ==
    (\E c \in ClusterNames : CreateCluster(c)) /\ UNCHANGED <<syncVars, hookVars, inflight>>
UpdateClusterCall ==
    /\ \E c \in ClusterNames, new \in ClusterObjects : UpdateCluster(c, new)
    /\ UNCHANGED <<syncVars, hookVars, inflight>>
DeleteClusterCall ==
    (\E c \in ClusterNames : DeleteCluster(c)) /\ UNCHANGED <<syncVars, hookVars, inflight>>
CreateRuleCall == CreateRule /\ UNCHANGED <<syncVars, hookVars, inflight>>
UpdateRuleSpecCall ==
    (\E sch \in SchedulerNames : UpdateRuleSpec(sch)) /\ UNCHANGED <<syncVars, hookVars, inflight>>
UpdateRuleStatusCall ==
    /\ \E decs \in SUBSET ClusterNames, passed \in BOOLEAN : UpdateRuleStatus(decs, passed)
    /\ UNCHANGED <<syncVars, hookVars, inflight>>
ReconcileCall == Reconcile /\ UNCHANGED <<syncVars, hookVars, inflight>>

PlaceSpecInit == PlaceInit /\ SyncIdle /\ HookIdle

PlaceNext ==
    \/ CreateClusterCall
    \/ UpdateClusterCall
    \/ DeleteClusterCall
    \/ CreateRuleCall
    \/ UpdateRuleSpecCall
    \/ UpdateRuleStatusCall
    \/ ReconcileCall

\* the work queue hands every queued request to the reconciler
PlaceSpec == PlaceSpecInit /\ [][PlaceNext]_vars /\ WF_vars(ReconcileCall)

MediumFetched == event'.attempt /\ EqualFold(cfg.rate, "medium") /\ obs'.fetched

\* the attempt went on to sortClonedGitRepo
ClassificationRun == obs'.kind \in {"sortfail", "empty", "applyfail", "applied"}

(***************************************************************************)
(* C33: with the rate "medium", an attempt whose fetch succeeded is        *)
(* skipped only if a previous commit id is recorded, the fetched commit    *)
(* equals it, the successful flag is true and the tick counter is below 6; *)
(* with no previous commit, or after an unsuccessful attempt, the attempt  *)
(* is not skipped and the classification is run.                           *)
(***************************************************************************)
C33_SkipOnlyWhenUnchangedAndSuccessful ==
    [][ MediumFetched
        => /\ obs'.kind = "skip"
              => /\ ItemAtAttempt.commitID # ""
                 /\ obs'.commit = ItemAtAttempt.commitID
                 /\ ItemAtAttempt.successful
                 /\ count' < ForceResyncCount
           /\ ItemAtAttempt.commitID = "" \/ ~ItemAtAttempt.successful
              => ClassificationRun ]_vars

\* a retry (the attempt before failed) fetched the recorded commit and went on
\* to classify and apply
C33_RetryOfSameCommitNotSkipped ==
    /\ EqualFold(cfg.rate, "medium") /\ event.attempt /\ event.op = "Retry"
    /\ obs.fetched /\ obs.commit = commitID /\ obs.kind = "applyfail"
    /\ count < ForceResyncCount


\* the lists an attempt builds of the tree of commit c when it begins with an
\* empty list and buckets, over the orders the maps may be ranged in
FreshLists(c) ==
    { subscribeBuckets(cfg, <<>>, TRUE,
                       sortClonedGitRepo(NilSorted, in.tree).sorted, in).res :
          in \in { i \in Inputs(cfg.repo) : i.fetch = c } }

(***************************************************************************)
(* C34: the list an attempt hands to ProcessSubResources holds what that   *)
(* attempt built of the tree it fetched and nothing else: it is a list an  *)
(* attempt starting from an empty item builds, whatever attempts (failed,  *)
(* skipped, successful) went before.                                       *)
(***************************************************************************)
C34_AppliedListBuiltInAttempt ==
    event.attempt /\ obs.processCalled => obs.atDecision \in FreshLists(obs.commit)

\* an attempt applied a list right after one whose apply failed and left its
\* list in the item
C34_AppliedAfterFailedApply ==
    /\ event.attempt /\ event.op = "Retry" /\ obs.processCalled
    /\ obs.kind = "applied" /\ obs.atDecision # <<>>


\* the files of a tree
TreeFiles(tree) ==
    {tree.crds[i] : i \in DOMAIN tree.crds} \cup {tree.rbac[i] : i \in DOMAIN tree.rbac}
    \cup {tree.other[i] : i \in DOMAIN tree.other}

\* the documents of the files and of the Kustomize output of a tree that are
\* handed to subscribeResourceFile, as they are handed to it
HandedOver(tree) ==
    { m \in UNION { { injectIdentity(cfg, FileOf(f).docs[i]) :
                        i \in DOMAIN FileOf(f).docs } : f \in TreeFiles(tree) }
                \cup
                UNION { { KustomizeOf(d).out[i] : i \in DOMAIN KustomizeOf(d).out } :
                          d \in tree.kdirs } :
          m.bad \/ ~(m.api = "" \/ m.kind = "") }

\* parse, filter or package override fails on the manifest
FailsAlone(m) == ~subscribeResource(cfg, m).ok

\* the attempt of the step met no error of a whole file, Kustomize root or chart
NoBucketError == obs'.decided /\ obs'.errMsg = <<>> /\ obs'.kusErr = ""

(***************************************************************************)
(* C35: in an attempt where nothing fails but single manifests (parse,     *)
(* filter or package override), every other manifest of the tree that      *)
(* passes is in the list at the decision; the failures do not touch the    *)
(* successful flag, and the attempt returns an error only if the apply     *)
(* fails or the list is empty with the flag false since before.            *)
(***************************************************************************)
C35_FailureDropsOnlyThatManifest ==
    [][ /\ event'.attempt /\ NoBucketError
        /\ \E m \in HandedOver(TreeOf(cfg.repo, obs'.commit)) : FailsAlone(m)
        => /\ \A m \in HandedOver(TreeOf(cfg.repo, obs'.commit)) :
                 ~FailsAlone(m)
                 => \E i \in DOMAIN obs'.atDecision :
                       obs'.atDecision[i] = subscribeResource(cfg, m).rsc
           /\ obs'.successfulAtDecision = ItemAtAttempt.successful
           /\ obs'.isErr
              => \/ obs'.kind = "applyfail"
                 \/ obs'.atDecision = <<>> /\ ~ItemAtAttempt.successful ]_vars

\* an attempt applied a list with the manifests that follow a failed one in
\* their file
C35_SiblingsOfFailedApplied ==
    /\ event.attempt /\ obs.kind = "applied" /\ obs.errMsg = <<>>
    /\ cfg.repo = "plain" /\ obs.commit = "c2"
    /\ \E i \in DOMAIN obs.atDecision : obs.atDecision[i].id = "subChild"


\* the workers that are in the middle of an attempt
InFlight == { ch \in 1..MaxStarts : inflight[ch].active }

(***************************************************************************)
(* C36: under any interleaving of ticks with Start(true) and Stop, at most *)
(* one attempt of the item is under way at a time: the cycle Start(true)   *)
(* made runs no attempt while one of the cancelled cycle is in flight.     *)
(***************************************************************************)
C36_OneAttemptAtATime == Cardinality(InFlight) <= 1


(***************************************************************************)
(* C37: the recorded commit id changes only in an attempt in which         *)
(* ProcessSubResources returned no error, and is then the commit that      *)
(* attempt fetched; a skipped attempt and a failed one (fetch,             *)
(* classification, empty list, apply) leave it as it was, and so does      *)
(* every step that is no attempt.                                          *)
(***************************************************************************)
C37_CommitRecordedOnApplyOnly ==
    [][ /\ commitID' # commitID
           => /\ event'.attempt /\ obs'.kind = "applied" /\ obs'.processCalled
              /\ ~obs'.isErr /\ commitID' = obs'.commit
        /\ event'.attempt /\ obs'.kind # "applied" => commitID' = commitID
        /\ event'.attempt /\ obs'.kind = "applied" => commitID' = obs'.commit ]_vars

\* an attempt fetched another commit than the recorded one, its apply failed and
\* the recorded commit stayed
C37_FailedApplyKeptCommit ==
    /\ event.attempt /\ obs.kind = "applyfail" /\ obs.processCalled
    /\ commitID # "" /\ obs.commit # commitID


\* a full attempt in which no step failed: the fetch and the classification
\* succeeded, no bucket returned an error and the apply, if called, succeeded
NoStepFailed ==
    /\ event.attempt /\ obs.fetched /\ obs.decided
    /\ obs.errMsg = <<>> /\ obs.kusErr = "" /\ obs.kind # "applyfail"

(***************************************************************************)
(* C38: what a full attempt returns depends on its own fetch,              *)
(* classification, build and apply only, not on the successful flag it     *)
(* began with: an attempt in which no step fails returns no error and ends *)
(* with the flag true, also right after a failed attempt and also when the *)
(* tree yields an empty list.                                              *)
(***************************************************************************)
C38_OutcomeIndependentOfFlag ==
    NoStepFailed => ~obs.isErr /\ successful /\ status.phase = "Subscribed"


\* the call read the subscription and its Git channel and came to the test of
\* isSubscriptionUpdate
ReachedUpdateTest ==
    /\ ret.op = "RegisterSubscription" /\ ~ret.apiErr /\ ~ret.chanErr
    /\ ret.subExists /\ ret.sawGen # 0
    /\ EqualFold(ret.chanType, ChannelTypeGit) \/ EqualFold(ret.chanType, ChannelTypeGitHub)

(***************************************************************************)
(* C39: when the download of the hook resources or the discovery of the    *)
(* templates failed in a RegisterSubscription call, the next call for the  *)
(* same key with the same generation attempts the download again.          *)
(***************************************************************************)
C39_FailedRegistrationRetried ==
    ReachedUpdateTest /\ ret.prevFailed /\ ret.prevGen = ret.sawGen => ret.downloaded


\* the resource is a Subscription of apps.open-cluster-management.io marked
\* cluster-admin = true
AdminChild(rsc) ==
    /\ EqualFold(GroupOf(rsc.api), SubscriptionGroup)
    /\ EqualFold(rsc.kind, "Subscription")
    /\ EqualFold(Get(rsc.annos, AnnotationClusterAdmin), "true")

\* the item has the cluster-admin flag or its subscription the annotation
ParentIsAdmin ==
    \/ cfg.clusterAdmin
    \/ cfg.subHasAnnos /\ EqualFold(Get(cfg.subAnnos, AnnotationClusterAdmin), "true")

(***************************************************************************)
(* C40: a child Subscription in the list handed to ProcessSubResources     *)
(* carries cluster-admin = true only when the parent item has the          *)
(* cluster-admin flag or the parent subscription carries the annotation.   *)
(***************************************************************************)
C40_AdminChildOnlyUnderAdminParent ==
    obs.processCalled =>
        \A i \in DOMAIN obs.atDecision :
            AdminChild(obs.atDecision[i]) => ParentIsAdmin

=============================================================================
